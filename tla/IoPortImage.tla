----------------------------- MODULE IoPortImage -----------------------------
(***************************************************************************)
(* io_port.t, the bytes the simulator loads: io_port.c as it was compiled, *)
(* with the start-up code of the compiler.  main begins at 282.            *)
(***************************************************************************)
EXTENDS Integers, Sequences

IoPortImage == <<
    2, 0, 3, 117, 129, 32, 144, 0, 1, 133, 131, 160, 18, 1, 51, 236,
    77, 96, 115, 120, 32, 128, 3, 118, 0, 24, 184, 32, 250, 120, 32, 128,
    3, 118, 0, 24, 184, 32, 250, 120, 31, 128, 3, 118, 0, 24, 184, 31,
    250, 120, 32, 128, 3, 118, 0, 24, 184, 31, 250, 144, 0, 1, 174, 131,
    175, 130, 144, 0, 1, 18, 0, 143, 96, 5, 228, 240, 163, 128, 246, 144,
    0, 1, 168, 130, 144, 0, 1, 169, 130, 232, 105, 96, 5, 228, 242, 8,
    128, 247, 144, 0, 237, 18, 0, 152, 144, 0, 241, 18, 0, 152, 144, 0,
    245, 18, 0, 152, 144, 0, 249, 18, 0, 182, 144, 0, 255, 18, 0, 182,
    144, 1, 5, 18, 0, 182, 117, 208, 0, 18, 1, 26, 2, 1, 11, 239,
    101, 130, 112, 3, 238, 101, 131, 34, 228, 147, 248, 116, 1, 147, 249, 116,
    2, 147, 254, 116, 3, 147, 245, 130, 142, 131, 232, 105, 112, 1, 34, 228,
    147, 246, 163, 8, 128, 244, 228, 147, 252, 116, 1, 147, 253, 116, 2, 147,
    254, 116, 3, 147, 255, 116, 4, 147, 248, 116, 5, 147, 245, 130, 136, 131,
    18, 0, 143, 112, 1, 34, 228, 147, 163, 168, 131, 169, 130, 140, 131, 141,
    130, 240, 163, 172, 131, 173, 130, 136, 131, 137, 130, 128, 227, 32, 32, 1,
    13, 33, 33, 1, 13, 33, 33, 1, 13, 0, 1, 1, 13, 1, 13, 0,
    1, 1, 13, 1, 13, 0, 1, 1, 13, 1, 13, 128, 254, 117, 128, 0,
    117, 144, 0, 117, 160, 0, 117, 176, 0, 34, 18, 1, 13, 117, 128, 1,
    117, 144, 59, 117, 144, 0, 117, 144, 230, 117, 144, 202, 117, 144, 170, 117,
    144, 27, 34, 124, 1, 125, 0, 34
    >>
==============================================================================
