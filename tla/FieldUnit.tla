------------------------------ MODULE FieldUnit ------------------------------
(***************************************************************************)
(* The contract of the field arithmetic unit CORE: what it returns for an  *)
(* operation and after how many clock edges.  Core.tla is shown to keep    *)
(* it; the point units are composed with it in the place of CORE.          *)
(***************************************************************************)
EXTENDS GF2m

Modes == {"add", "mul", "inv"}                        \* 0, 1, 2

\* inverse takes M-1 squarings and M-2 products: cnt_mult runs 0 .. LastMult.
LastMult == 2 * (M - 2)

\* What the golden model computes for an operand.
CoreResult(op) ==
    CASE op.mode = "add" -> Add(op.a, op.b)
      [] op.mode = "mul" -> Mul(op.a, op.b, op.p)
      [] op.mode = "inv" -> Inv(op.a, op.p)

\* Edges one multiplication occupies inside an inversion: M rounds, the edge
\* that takes the product, the edge that clears the array and starts again.
MultPeriod == M + 2

CoreLatency(op) ==
    CASE op.mode = "add" -> 3
      [] op.mode = "mul" -> M + 1
      [] op.mode = "inv" -> LastMult * MultPeriod + M + 1
==============================================================================
