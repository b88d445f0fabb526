----------------------------- MODULE MCRealtime -----------------------------
(***************************************************************************)
(* A small instance for TLC: two sockets, two message handlers at once.  A *)
(* crash is the only step that conversation and jobs share, so each is run *)
(* without the other: three chat events with no crash or two with one; two *)
(* jobs with no crash or one with two.                                     *)
(***************************************************************************)
EXTENDS Realtime

ChatOrJobs == {[events |-> 3, jobs |-> 0, crashes |-> 0],
               [events |-> 2, jobs |-> 0, crashes |-> 1],
               [events |-> 0, jobs |-> 2, crashes |-> 0],
               [events |-> 0, jobs |-> 1, crashes |-> 2]}
=============================================================================
