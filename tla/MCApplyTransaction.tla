------------------------- MODULE MCApplyTransaction -------------------------
(***************************************************************************)
(* Model-checking instance of ApplyTransaction.  Either two sessions at a  *)
(* time change a file whose gap between last fingerprint and replace stays *)
(* undisturbed, or sessions come one after another, for longer, and the    *)
(* gap is not spared.  Sessions and the contents StarCompanion renders are *)
(* interchangeable.                                                        *)
(***************************************************************************)
EXTENDS ApplyTransaction, TLC

CONSTANTS LongPrepared, LongForeign, LongKeep, LongWrites, LongBackups

VARIABLE inTurn   \* sessions come one after another

Long == INSTANCE ApplyTransaction WITH
          Prepared   <- LongPrepared,
          Foreign    <- LongForeign,
          Keep       <- LongKeep,
          MaxWrites  <- LongWrites,
          MaxBackups <- LongBackups,
          GapWrites  <- TRUE

Busy == {s \in Sessions : phase'[s] # "idle"}

EitherInit == inTurn \in BOOLEAN /\ IF inTurn THEN Long!Init ELSE Init

EitherNext ==
  /\ \/ ~inTurn /\ Next
     \/ inTurn /\ Long!Next /\ Cardinality(Busy) <= 1
  /\ UNCHANGED inTurn

EitherSpec == EitherInit /\ [][EitherNext]_<< vars, inTurn >>

Symmetry == Permutations(Sessions) \union Permutations(LongPrepared)

EitherTypeOK == IF inTurn THEN Long!TypeOK ELSE TypeOK

\* ReplacesWhatWasReviewed, as far as no outside write falls into the gap.
SharedReplacesWhatWasReviewed ==
  [][~inTurn => \A s \in Sessions : ReviewedBy(s)]_<< vars, inTurn >>
=============================================================================
