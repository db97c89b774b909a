----------------------------- MODULE MCDocsEditor ----------------------------
(* DocsEditor with a sheet that is markdown or a canvas beside a board that *)
(* is a canvas, one text beside Blank, and one mutation that saves or       *)
(* shares beside one that restores.  States count as one that differ only   *)
(* in what no guard and no property reads: the answer of the last step;     *)
(* whether a document without data is invalid or excused, or what the       *)
(* histories say of an editor it was not copied to, since what brings the   *)
(* data sets all of these anew; which history excuses ShowsStored; and of a *)
(* hurried save where its text came from.                                   *)
EXTENDS DocsEditor

CONSTANTS sheet, board

MixedOrCanvases == {{board}, {sheet, board}}

Cached == {d \in Docs : data[d] # None}
Copied == doc \in Cached

Readable(j) == IF j # None /\ j.hurried THEN [j EXCEPT !.sends.owner = None] ELSE j

WhatMatters ==
    <<canvases, doc, editor, data, invalid \cap Cached, fetch, scene, timer,
      [m \in Mutations |-> Readable(job[m])],
      Copied /\ leaked, Copied /\ (typed \/ stale), excused \cap Cached,
      value, answerable>>
=============================================================================
