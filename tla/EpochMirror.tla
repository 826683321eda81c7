---------------------------- MODULE EpochMirror ----------------------------
(* What store-and-forward promises, whatever the transport does: the samples *)
(* recorded here are append-only, epoch by epoch, and the remote store holds *)
(* a prefix of each epoch, which grows unless that store is wiped.           *)
EXTENDS SequencesExt

CONSTANT Epochs

VARIABLES ledger,   \* epoch -> samples recorded here
          mirror    \* epoch -> samples the remote store holds

Init ==
    /\ ledger = [e \in Epochs |-> <<>>]
    /\ mirror = [e \in Epochs |-> <<>>]

Grows(old, new, e) ==
    /\ IsStrictPrefix(old[e], new[e])
    /\ \A f \in Epochs \ {e} : new[f] = old[f]

Record == \E e \in Epochs : Grows(ledger, ledger', e) /\ UNCHANGED mirror

Copy ==
    \E e \in Epochs :
        /\ Grows(mirror, mirror', e)
        /\ IsPrefix(mirror'[e], ledger[e])
        /\ UNCHANGED ledger

Wipe ==
    /\ mirror' = [e \in Epochs |-> <<>>]
    /\ UNCHANGED ledger

Spec == Init /\ [][Record \/ Copy \/ Wipe]_<<ledger, mirror>>

============================================================================
