---------------------------- MODULE OneShotRead ----------------------------
(* What a caller of getDocuments may rely on: a read that was asked for is  *)
(* answered once, with documents or with an error, and a read nobody asked  *)
(* for is never answered.  StickerViewModel.getSticker is written against   *)
(* this promise: its closure hands the stickers to a screen and must not    *)
(* run a second time.  FirestoreGet shows how the client library keeps it;  *)
(* StickerCatalog uses it for the reads of the screens.                     *)
EXTENDS Sequences

CONSTANT Gets       \* the reads a run of the program makes

VARIABLES
    asked,          \* the reads that were asked for
    answers         \* answers[g]: what the callback of g was called with

readVars == <<asked, answers>>

Results == {"documents", "error"}

ReadInit ==
    /\ asked = {}
    /\ answers = [g \in Gets |-> <<>>]

\* The caller asks: it returns at once and the answer comes later.
Ask(g) ==
    /\ g \notin asked
    /\ asked' = asked \cup {g}
    /\ UNCHANGED answers

\* The callback of g runs on the main queue.
Answer(g, result) ==
    /\ g \in asked
    /\ answers[g] = <<>>
    /\ answers' = [answers EXCEPT ![g] = <<result>>]
    /\ UNCHANGED asked

ReadNext ==
    \E g \in Gets : Ask(g) \/ \E result \in Results : Answer(g, result)

ReadSpec == ReadInit /\ [][ReadNext]_readVars

=============================================================================
