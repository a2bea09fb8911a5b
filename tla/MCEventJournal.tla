--------------------------- MODULE MCEventJournal ---------------------------
(***************************************************************************)
(* Instances of EventJournal for TLC.                                       *)
(***************************************************************************)
EXTENDS EventJournal

CONSTANTS a1, a2

\* A new attempt, or one of an older runner that kept its events 2 and 3 only.
NewOrLegacy == {<<>>, <<[cur |-> 2, id |-> 0, kind |-> "progress"],
                        [cur |-> 3, id |-> 0, kind |-> "progress"]>>}

\* A save that fails without landing comes with no failing write and no retention.
WritesOrSaves == {{"open", "write", "remove", "drop", "landed"},
                  {"save", "landed", "open", "remove"}}

=============================================================================
