--------------------------- MODULE ListenDelivery ---------------------------
(***************************************************************************)
(* What the ingestion of listens promises to the clients of the API and to *)
(* the consumers of the unique queue, whatever services restart meanwhile: *)
(* a listen taken in is let go of only once it is stored or rejected, and  *)
(* only stored listens are announced, each of them once.                   *)
(***************************************************************************)
EXTENDS Sequences, SequencesExt

CONSTANT Listens

VARIABLES
    open,       \* listens taken in and not settled
    stored,     \* listens in the listens database
    rejected,   \* listens in the rejection queue
    announced   \* messages sent down the unique queue: the listens of each by their places

vars == <<open, stored, rejected, announced>>

Init == open = {} /\ stored = {} /\ rejected = {} /\ announced = <<>>

Accept(S) == open' = open \cup S /\ UNCHANGED <<stored, rejected, announced>>

Store(S) ==
    /\ S \subseteq open \ stored
    /\ stored' = stored \cup S
    /\ UNCHANGED <<open, rejected, announced>>

Reject(S) ==
    /\ S \subseteq open
    /\ rejected' = rejected \cup S
    /\ UNCHANGED <<open, stored, announced>>

Told == UNION {Range(announced[m]) : m \in DOMAIN announced}

\* A message of listens that have not been announced before.
Announce ==
    /\ announced' # <<>> /\ announced' = Append(announced, Last(announced'))
    /\ LET new == Last(announced') IN
       Range(new) # {} /\ Range(new) \subseteq stored \ Told /\ IsInjective(new)
    /\ UNCHANGED <<open, stored, rejected>>

Settle(S) ==
    /\ S \subseteq stored \cup rejected
    /\ open' = open \ S
    /\ UNCHANGED <<stored, rejected, announced>>

Next ==
    \/ \E S \in (SUBSET Listens) \ {{}} : Accept(S) \/ Store(S) \/ Reject(S) \/ Settle(S)
    \/ Announce

Spec == Init /\ [][Next]_vars
=============================================================================
