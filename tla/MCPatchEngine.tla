---------------------------- MODULE MCPatchEngine ----------------------------
(* PatchEngine for TLC: every plan of up to three of the operations the      *)
(* adapters and the tests build, on cells their windows share.               *)
EXTENDS PatchEngine, TLC

CONSTANTS disp, beside, entry, old, new, page1, page2, page3, page4

MCCells == {disp, beside, entry}
MCBytes == {old, new}
MCPages == {page1, page2, page3, page4}

Op(kind, window, field, expects, toState) ==
    [kind |-> kind, window |-> window, field |-> field,
     data |-> [c \in MCCells |-> new], expects |-> [c \in MCCells |-> expects],
     toState |-> toState, stub |-> 0]

(* The frame rate redirect with the instruction bytes beside it; the DPI     *)
(* prologue and the frame rate written over such bytes; the mov flip with    *)
(* the byte it expects; the Mobile UI detour; the bootstrap stub and its run.*)
MCOperations ==
    {Op("redirect", {disp, beside}, {disp}, Anything, TRUE),
     Op("redirect", {disp, beside}, {disp}, Anything, FALSE),
     Op("write", {beside}, {beside}, Anything, FALSE),
     Op("write", {beside, entry}, {beside, entry}, old, FALSE),
     Op("detour", {beside, entry}, {beside, entry}, Anything, FALSE),
     Op("stub", {}, {}, Anything, FALSE),
     Op("invoke", {}, {}, Anything, FALSE)}

MCPlans == UNION {[1 .. n -> MCOperations] : n \in 1 .. 3}

SymmetricPages == Permutations(MCPages)
=============================================================================
