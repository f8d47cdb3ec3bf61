---------------------------- MODULE MCCopyOnWrite ----------------------------
(***************************************************************************)
(* Module CopyOnWrite for TLC.  Contents are only copied and compared, so  *)
(* they are interchangeable.  Unless a property reads it, the history      *)
(* variable is no part of the state, and all lost kernels are alike.       *)
(***************************************************************************)
EXTENDS CopyOnWrite
LOCAL INSTANCE TLC

CONSTANTS a, b

ValueSymmetry == Permutations(Values)
NoHistory == IF up THEN <<mm, data>> ELSE <<>>

\* No frame is mapped by more than two directories: what goes wrong here is not the
\* count of the sharers, which misses some only where there are three.
TwoSharers ==
  \A f \in Frames :
    Cardinality({d \in Live : \E p \in Pages : Page(d, p).present /\ Page(d, p).frame = f}) <= 2
===============================================================================
