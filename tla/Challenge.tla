------------------------------ MODULE Challenge ------------------------------
(***************************************************************************)
(* What the captcha promises to the admin: who passes has solved it.       *)
(*                                                                         *)
(* At most one question is open for a user, and its answer was once the    *)
(* correct emoji of the bot.  A known user who names that emoji while the  *)
(* question is open has solved it, and may then be recorded, with the very *)
(* emoji; nobody is recorded in any other way and nobody is struck off.    *)
(*                                                                         *)
(* There are no cards, taps, deliveries, awaits or failures here:          *)
(* Captcha.tla, where handlers of several cards overwrite each other's     *)
(* answer and are rolled back, is shown to implement this module.          *)
(***************************************************************************)
CONSTANTS
    Users,
    Emojis,
    Default,        \* the correct emoji of a new bot
    NoEmoji

VARIABLES
    correct,        \* the correct emoji ...
    offered,        \* ... and all that ever were
    known,          \* users that are on record
    answer,         \* [Users -> the answer to the open question]
    solved,         \* <<user, emoji>>: solved and not yet recorded
    passed,         \* users that are recorded to have passed ...
    won             \* ... and [Users -> with which emoji]

vars == <<correct, offered, known, answer, solved, passed, won>>

Init ==
    /\ correct = Default
    /\ offered = {Default}
    /\ known = {} /\ passed = {} /\ solved = {}
    /\ answer = [u \in Users |-> NoEmoji]
    /\ won = [u \in Users |-> NoEmoji]

Choose(e) ==
    /\ correct' = e
    /\ offered' = offered \cup {e}
    /\ UNCHANGED <<known, answer, solved, passed, won>>

Meet(u) ==
    /\ known' = known \cup {u}
    /\ UNCHANGED <<correct, offered, answer, solved, passed, won>>

(* A new question replaces the open one. *)
Ask(u, e) ==
    /\ e \in offered
    /\ answer' = [answer EXCEPT ![u] = e]
    /\ UNCHANGED <<correct, offered, known, solved, passed, won>>

Withdraw(u) ==
    /\ answer' = [answer EXCEPT ![u] = NoEmoji]
    /\ UNCHANGED <<correct, offered, known, solved, passed, won>>

Solve(u) ==
    /\ u \in known
    /\ answer[u] # NoEmoji
    /\ solved' = solved \cup {<<u, answer[u]>>}
    /\ UNCHANGED <<correct, offered, known, answer, passed, won>>

(* A user may have solved it several times over. *)
Record(u, e) ==
    /\ <<u, e>> \in solved
    /\ passed' = passed \cup {u}
    /\ won' = [won EXCEPT ![u] = e]
    /\ solved' \in {solved, solved \ {<<u, e>>}}
    /\ UNCHANGED <<correct, offered, known, answer>>

(* It is lost before it is recorded: the user must solve it again. *)
Lose(u, e) ==
    /\ solved' = solved \ {<<u, e>>}
    /\ UNCHANGED <<correct, offered, known, answer, passed, won>>

Next ==
    \/ \E u \in Users : Meet(u) \/ Withdraw(u) \/ Solve(u)
    \/ \E e \in Emojis : Choose(e)
    \/ \E u \in Users, e \in Emojis : Ask(u, e) \/ Record(u, e) \/ Lose(u, e)

Spec == Init /\ [][Next]_vars
=============================================================================
