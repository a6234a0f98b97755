-------------------------- MODULE MCBackgroundWork --------------------------
(***************************************************************************)
(* Model-checking instance of the work that is done in the background on   *)
(* files of the game: reading archives in a helper process (HelperProcess), *)
(* what the helper reads (ArchiveReader) and makes of it (MissionFacts,    *)
(* MissionTactical), and reading logs for the ownership stores             *)
(* (OwnershipEvidence).  They share no state, so a behaviour runs one of   *)
(* them, named by "subject", and the others stay in one initial state.     *)
(***************************************************************************)
EXTENDS HelperProcess, TLC

CONSTANTS log1, log2, log3, bp1, bp2, Nothing, Null, Unreadable, Sentinel, Garbage, Kept

VARIABLES subject, logs, gamelog, home, next, stores, job, raced, dismissed,
          builds, file, reader, destination, sample

\* One of two names is ambiguous, in some catalogs.
Names == << "ambiguous", "plain" >>
CatalogWith(b) == [n \in {"ambiguous", "plain"} |-> IF n = "plain" THEN {bp2} ELSE b]

\* OwnershipEvidence, with what is proved about it.
\* The log itself: rewritten, rotated and copied while one window scans.
Scanned == INSTANCE OwnershipEvidenceProofs WITH
             Windows <- {"window"}, Played <- {"LIVE"}, Files <- {log1, log2},
             Blueprints <- {bp1, bp2}, Ops <- {"unowned"}, LastEvent <- 2,
             Homes <- {<< "LIVE", "LIVE" >>}, NameOf <- Names,
             Catalogs <- {CatalogWith({bp1, bp2})}, PrefixLimit <- 2, None <- Nothing,
             HalfLines <- TRUE, MaxRewrites <- 1, MaxSaves <- 2

\* Decisions of two windows with a store and its linked scope.
Decided == INSTANCE OwnershipEvidenceProofs WITH
             Windows <- {"window", "another"}, Played <- {"LIVE"}, Files <- {log1},
             Blueprints <- {bp1, bp2}, Ops <- {"owned", "unowned", "resolve", "import"},
             LastEvent <- 1, Homes <- {<< "LIVE" >>}, NameOf <- Names,
             Catalogs <- {CatalogWith({bp1, bp2}), CatalogWith({bp1})},
             PrefixLimit <- 2, None <- Nothing, HalfLines <- FALSE,
             MaxRewrites <- 0, MaxSaves <- 2

\* Three stores, with logs of both channels.
Shared == INSTANCE OwnershipEvidenceProofs WITH
             Windows <- {"window"}, Played <- {"LIVE", "HOTFIX"},
             Files <- {log1, log2, log3}, Blueprints <- {bp1, bp2},
             Ops <- {"unowned", "resolve"}, LastEvent <- 2,
             Homes <- {<< "LIVE", "HOTFIX" >>}, NameOf <- Names,
             Catalogs <- {CatalogWith({bp1, bp2})}, PrefixLimit <- 2, None <- Nothing,
             HalfLines <- FALSE, MaxRewrites <- 0, MaxSaves <- 3

ASSUME EvidenceConstants ==
  Scanned!EvidenceAssumption /\ Decided!EvidenceAssumption /\ Shared!EvidenceAssumption

evidenceVars == << logs, gamelog, home, next, stores, job, raced, dismissed >>

Data == INSTANCE MCGameData WITH None <- Nothing
Facts == INSTANCE MissionFacts WITH None <- Nothing
Tactical == INSTANCE MissionTactical WITH None <- Nothing
\* ArchiveReader, with what is proved about it.
Archive == INSTANCE ArchiveReaderProofs WITH
             None <- Nothing, Values <- Data!Values, Patches <- Data!Patches,
             Requests <- Data!Requests
ASSUME ArchiveConstants == Archive!ArchiveAssumption

dataVars == << builds, file, reader, destination, sample >>

NoData == builds = Nothing /\ file = Nothing /\ reader = Nothing /\ destination = Nothing

BackgroundInit ==
  /\ Init
  /\ \/ subject = "helper" /\ Scanned!Init /\ NoData /\ sample = Nothing
     \/ /\ subject \in {"scanned", "decided", "shared", "archive", "facts", "tactical"}
        /\ pollAtEof = "raises" /\ operation = Prepare /\ ~cancelled
        /\ \/ subject = "scanned" /\ Scanned!Init /\ NoData /\ sample = Nothing
           \/ subject = "decided" /\ Decided!Init /\ NoData /\ sample = Nothing
           \/ subject = "shared"  /\ Shared!Init  /\ NoData /\ sample = Nothing
           \/ subject = "archive" /\ Scanned!Init /\ Archive!ArchiveInit /\ sample = Nothing
           \/ /\ subject = "facts" /\ Scanned!Init /\ NoData
              /\ sample \in Data!RewardSources \union Data!ItemSources
           \/ /\ subject = "tactical" /\ Scanned!Init /\ NoData
              /\ sample \in Data!TacticalSources \X Data!Providers

BackgroundNext ==
  /\ UNCHANGED << subject, sample >>
  /\ \/ subject = "helper"  /\ Next /\ UNCHANGED << evidenceVars, dataVars >>
     \/ subject = "scanned" /\ Scanned!Next /\ UNCHANGED << vars, dataVars >>
     \/ subject = "decided" /\ Decided!Next /\ UNCHANGED << vars, dataVars >>
     \/ subject = "shared"  /\ Shared!Next  /\ UNCHANGED << vars, dataVars >>
     \/ subject = "archive" /\ Archive!ArchiveNext /\ UNCHANGED << vars, evidenceVars >>

OfHelper(A) == subject = "helper" /\ A

\* The fairness of HelperProcess.FairSpec.
BackgroundSpec ==
  /\ BackgroundInit
  /\ [][BackgroundNext]_<< subject, vars, evidenceVars, dataVars >>
  /\ WF_vars(OfHelper(ParentStep) /\ UNCHANGED << evidenceVars, dataVars >>)
  /\ WF_vars(OfHelper(GracePasses) /\ UNCHANGED << evidenceVars, dataVars >>)

CursorsStayBehindEvidence ==
  /\ subject = "scanned" => Scanned!CursorsStayBehindEvidence
  /\ subject = "decided" => Decided!CursorsStayBehindEvidence
  /\ subject = "shared" => Shared!CursorsStayBehindEvidence

ChannelsStayApart == subject = "shared" => Shared!ChannelsStayApart

EvidenceIsKept ==
  [][/\ subject = "scanned" => Scanned!EvidenceStaysUnlessDismissed
     /\ subject = "decided" => Decided!EvidenceStaysUnlessDismissed
     /\ subject = "shared" => Shared!EvidenceStaysUnlessDismissed]_evidenceVars

DecisionIsTheReviewedOne ==
  [][subject = "decided" => Decided!AsReviewed]_evidenceVars

\* What is read of an archive is of one build, and sound unless it is refused.
ReadsAreFaithful == subject = "archive" => Archive!ReadsAreFaithful

RewardsAreTraced == subject = "facts" => Facts!RewardsAreTraced(sample)

StatedIsAgreed == subject = "tactical" => Tactical!StatedIsAgreed(sample[1], sample[2])
=============================================================================
