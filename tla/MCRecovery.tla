----------------------------- MODULE MCRecovery -----------------------------
(* Transactions and recovery on small instances. *)
EXTENDS Recovery, TLC

DataSymmetry == Permutations(Data)

(* Nothing is claimed after one of Reasons, and no step takes one back:    *)
(* the run goes no further there.  At most one page is on disk at a time.  *)
Claimed == spoilt = {} /\ Cardinality(Evicted) <= 1

(* What each of the other reasons breaks: these do not hold. *)
StrandedVisible == spoilt \subseteq {"stranded"} => Visible

NoIdRecoverable == spoilt \subseteq {"noid"} /\ Evicted = {} => Recoverable

ReusedIdsRecoverable == spoilt \subseteq {"ids"} /\ Evicted = {} => Recoverable

EvictedRecoverable == spoilt = {} => Recoverable
=============================================================================
