------------------------------ MODULE ProofLog ------------------------------
(***************************************************************************)
(* What the on-chain program promises its readers: a log of accepted       *)
(* proofs.  A registry takes entries only while it is open, takes the      *)
(* same digest at most once, one entry at a time, and the log never        *)
(* changes or drops an entry, whatever becomes of the registry.            *)
(***************************************************************************)
CONSTANTS
    Registries,  \* the addresses of all registries
    Entries      \* all entries: records with a registry and a digest field

VARIABLES
    open,     \* the registries that can take an entry
    entries   \* the log

vars == <<open, entries>>

Init ==
    /\ open = {}
    /\ entries = {}

Open(key) ==
    /\ key \in Registries \ open
    /\ open' = open \cup {key}
    /\ UNCHANGED entries

Record(entry) ==
    /\ entry.registry \in open
    /\ \A old \in entries : old.registry = entry.registry => old.digest # entry.digest
    /\ entries' = entries \cup {entry}
    /\ UNCHANGED open

Close(key) ==
    /\ key \in open
    /\ open' = open \ {key}
    /\ UNCHANGED entries

Next ==
    \/ \E key \in Registries : Open(key) \/ Close(key)
    \/ \E entry \in Entries : Record(entry)

Spec == Init /\ [][Next]_vars
============================================================================
