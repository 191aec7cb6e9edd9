-------------------------- MODULE ObjectReferences --------------------------
(***************************************************************************)
(* What the media library promises about stored videos: a media row only   *)
(* ever points at an object that is stored, and only an object that no row *)
(* points at is removed.  MediaObjects implements it.                      *)
(***************************************************************************)
CONSTANTS Media, Object, None

VARIABLES stored,  \* the objects in the bucket
          refs     \* the object each media points at, None where there is no media

Init == stored = {} /\ refs = [m \in Media |-> None]

Store(o) == stored' = stored \cup {o} /\ UNCHANGED refs

Refer(m, o) == /\ o \in stored
               /\ refs[m] = None
               /\ refs' = [refs EXCEPT ![m] = o]
               /\ UNCHANGED stored

Forget(m) == refs' = [refs EXCEPT ![m] = None] /\ UNCHANGED stored

Collect(o) == /\ \A m \in Media : refs[m] # o
              /\ stored' = stored \ {o}
              /\ UNCHANGED refs

Next == \/ \E o \in Object : Store(o) \/ Collect(o)
        \/ \E m \in Media : Forget(m) \/ \E o \in Object : Refer(m, o)

Spec == Init /\ [][Next]_<<stored, refs>>
=============================================================================
