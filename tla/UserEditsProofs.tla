-------------------------- MODULE UserEditsProofs --------------------------
(***************************************************************************)
(* The theorems about UserEdits, for every set of sessions, keys and       *)
(* texts, every retention and every length of history: an undo leads to    *)
(* the past, what is called authored was authored, and a save that is      *)
(* alone copies what it replaces.                                          *)
(*                                                                         *)
(* The first rests on a trail: for the commands of a session, or of the    *)
(* history on disk, there are contents user.ini has held, one between each *)
(* two commands, and each command is the change from one to the next.  No  *)
(* step of a save breaks a trail, and replaying commands that have one     *)
(* walks along it, by induction on their number.                           *)
(***************************************************************************)
EXTENDS UserEdits, SequenceTheorems, WellFoundedInduction, TLAPS

-----------------------------------------------------------------------------
(***************************************************************************)
(* Induction over the positions of a sequence, from the library's fact     *)
(* that < is well founded on the natural numbers.                          *)
(***************************************************************************)

\* A set of natural numbers with a member has a least one.
LEMMA SmallestNat ==
  ASSUME NEW T \in SUBSET Nat, T # {}
  PROVE  \E n \in T : \A m \in T : n <= m
<1>1. IsWellFoundedOn(OpToRel(<, Nat), Nat)
  BY NatLessThanWellFounded, Zenon
<1>2. PICK n \in T : \A m \in T : ~(<<m, n>> \in OpToRel(<, Nat))
  BY <1>1, WFMin, Zenon
<1>3. ASSUME NEW m \in T, ~(n <= m)
      PROVE  FALSE
  <2>1. m < n
    BY <1>3
  <2>2. <<m, n>> \in OpToRel(<, Nat)
    BY <2>1, Zenon DEF OpToRel
  <2> QED
    BY <2>2, <1>2, Zenon
<1> QED
  BY <1>3

\* A set with 0 that is closed under the next number holds all up to n.
LEMMA UpTo ==
  ASSUME NEW T, NEW n \in Nat, 0 \in T,
         \A i \in 0..n : i < n /\ i \in T => i + 1 \in T
  PROVE  0..n \subseteq T
<1> SUFFICES ASSUME (0..n) \ T # {} PROVE FALSE
  OBVIOUS
<1>1. PICK i \in (0..n) \ T : \A m \in (0..n) \ T : i <= m
  <2>1. (0..n) \ T \in SUBSET Nat
    OBVIOUS
  <2> QED
    BY <2>1, SmallestNat, Zenon
<1>2. i # 0 /\ i - 1 \in 0..n
  BY <1>1
<1>3. i - 1 \in T
  BY <1>1, <1>2
<1> QED
  BY <1>1, <1>2, <1>3

-----------------------------------------------------------------------------
(***************************************************************************)
(* Commands and trails.                                                    *)
(***************************************************************************)

Commands  == {Changed(x, y) : x \in Contents, y \in Contents}
Histories == {c \in Seq(Commands) : Len(c) <= MaxHistory}

\* Each command is the change from one content of the trail to the next.
Leads(t, commands) ==
  \A i \in 1..Len(commands) : commands[i] = Changed(t[i - 1], t[i])

\* The content at the cursor, those before it and those after it are past.
Trail(commands, cursor, content, past) ==
  /\ cursor \in 0..Len(commands)
  /\ \E t \in [0..Len(commands) -> past] :
       t[cursor] = content /\ Leads(t, commands)

\* A change leads from its first content to its second, and back.
LEMMA ChangedLeads ==
  ASSUME EditAssumption, NEW x \in Contents, NEW y \in Contents
  PROVE  /\ Led(Changed(x, y), x) = y
         /\ Led(Reversed(Changed(x, y)), y) = x
         /\ Apply(Changed(x, y), x) = y
         /\ Apply(Reversed(Changed(x, y)), y) = x
<1>1. x # Missing /\ y # Missing
  BY DEF EditAssumption
<1>2. Applies(Changed(x, y), x) /\ Applies(Reversed(Changed(x, y)), y)
  BY DEF Applies, Changed, Reversed
<1>3. Apply(Changed(x, y), x) = y
  BY DEF Apply, Changed, Contents
<1>4. Apply(Reversed(Changed(x, y)), y) = x
  BY DEF Apply, Changed, Contents, Reversed
<1> QED
  BY <1>1, <1>2, <1>3, <1>4 DEF Led

\* Commands with a trail replay to its end.
LEMMA ReplayFollows ==
  ASSUME EditAssumption, NEW commands, Len(commands) \in Nat,
         NEW t \in [0..Len(commands) -> Contents], Leads(t, commands)
  PROVE  Replay(commands, t[0]) = t[Len(commands)]
<1> DEFINE n == Len(commands)
           Continued(f) == [i \in 0..n |->
                         IF i = 0 THEN t[0] ELSE Led(commands[i], f[i - 1])]
           after == CHOOSE f : f = Continued(f)
<1>1. Replay(commands, t[0]) = after[n]
  BY DEF Replay
<1>2. t = Continued(t)
  <2>1. \A i \in 1..n : t[i] = Led(commands[i], t[i - 1])
    BY ChangedLeads DEF Leads
  <2> QED
    BY <2>1
<1>3. after = Continued(after)
  BY <1>2
<1> HIDE DEF after
<1> DEFINE T == {i \in 0..n : after[i] = t[i]}
<1>4. 0 \in T
  BY <1>3
<1>5. ASSUME NEW i \in 0..n, i < n, i \in T
      PROVE  i + 1 \in T
  <2>1. after[i + 1] = Led(commands[i + 1], after[i])
    BY <1>5, <1>3
  <2>2. commands[i + 1] = Changed(t[i], t[i + 1])
    BY <1>5 DEF Leads
  <2> QED
    BY <2>1, <2>2, <1>5, ChangedLeads
<1> HIDE DEF T
<1>6. n \in T
  BY <1>4, <1>5, UpTo
<1> QED
  BY <1>1, <1>6 DEF T

\* Commands with a trail unwind to its start.
LEMMA UnwindFollows ==
  ASSUME EditAssumption, NEW commands, Len(commands) \in Nat,
         NEW t \in [0..Len(commands) -> Contents], Leads(t, commands)
  PROVE  Unwind(commands, t[Len(commands)]) = t[0]
<1> DEFINE n == Len(commands)
           Continued(f) == [i \in 0..n |->
                         IF i = n THEN t[n] ELSE Led(Reversed(commands[i + 1]), f[i + 1])]
           before == CHOOSE f : f = Continued(f)
<1>1. Unwind(commands, t[n]) = before[0]
  BY DEF Unwind
<1>2. t = Continued(t)
  <2>1. \A i \in 0..n : i # n => t[i] = Led(Reversed(commands[i + 1]), t[i + 1])
    BY ChangedLeads DEF Leads
  <2> QED
    BY <2>1
<1>3. before = Continued(before)
  BY <1>2
<1> HIDE DEF before
<1> DEFINE T == {i \in 0..n : before[n - i] = t[n - i]}
<1>4. 0 \in T
  BY <1>3
<1>5. ASSUME NEW i \in 0..n, i < n, i \in T
      PROVE  i + 1 \in T
  <2> DEFINE j == n - (i + 1)
  <2>1. j \in 0..n /\ j # n /\ j + 1 = n - i /\ j + 1 \in 1..n /\ j + 1 - 1 = j
    BY <1>5
  <2>2. before[j] = Led(Reversed(commands[j + 1]), before[j + 1])
    BY <2>1, <1>3
  <2>3. commands[j + 1] = Changed(t[j + 1 - 1], t[j + 1])
    <3> HIDE DEF j
    <3> QED
      BY <2>1 DEF Leads
  <2>4. before[j + 1] = t[j + 1]
    BY <2>1, <1>5
  <2>5. before[j] = t[j]
    <3> HIDE DEF j
    <3>1. t[j] \in Contents /\ t[j + 1] \in Contents
      BY <2>1
    <3> QED
      BY <3>1, <2>1, <2>2, <2>3, <2>4, ChangedLeads
  <2> QED
    BY <2>5, <1>5
<1> HIDE DEF T
<1>6. n \in T
  BY <1>4, <1>5, UpTo
<1> QED
  BY <1>1, <1>6 DEF T

\* A trail may be cut at both ends, around the cursor.
LEMMA TrailCut ==
  ASSUME NEW commands \in Seq(Commands), NEW cursor, NEW content, NEW past,
         Trail(commands, cursor, content, past),
         NEW a \in Nat, NEW z \in Nat,
         a >= 1, a - 1 <= cursor, cursor <= z, z <= Len(commands)
  PROVE  /\ SubSeq(commands, a, z) \in Seq(Commands)
         /\ Len(SubSeq(commands, a, z)) = z - a + 1
         /\ Trail(SubSeq(commands, a, z), cursor - (a - 1), content, past)
<1> DEFINE cut == SubSeq(commands, a, z)
<1>1. cursor \in 0..Len(commands) /\ Len(commands) \in Nat
  BY DEF Trail
<1>2. /\ cut \in Seq(Commands)
      /\ Len(cut) = z - a + 1
      /\ \A i \in 1..z - a + 1 : cut[i] = commands[a + i - 1]
  <2>1. \A i \in a..z : commands[i] \in Commands
    BY <1>1
  <2>2. CASE a <= z
    BY <2>1, <2>2, <1>1, SubSeqProperties
  <2>3. CASE a = z + 1
    BY <2>3, <2>1, <1>1, SubSeqProperties
  <2> QED
    BY <2>2, <2>3, <1>1
<1>3. PICK t \in [0..Len(commands) -> past] :
        t[cursor] = content /\ Leads(t, commands)
  BY DEF Trail
<1> HIDE DEF cut
<1> DEFINE u == [i \in 0..Len(cut) |-> t[i + (a - 1)]]
<1>4. u \in [0..Len(cut) -> past] /\ u[cursor - (a - 1)] = content
  BY <1>1, <1>2, <1>3
<1>5. Leads(u, cut)
  <2> SUFFICES ASSUME NEW i \in 1..Len(cut)
               PROVE  cut[i] = Changed(u[i - 1], u[i])
    BY DEF Leads
  <2>1. cut[i] = commands[a + i - 1] /\ a + i - 1 \in 1..Len(commands)
    BY <1>1, <1>2
  <2>2. commands[a + i - 1] = Changed(t[a + i - 2], t[a + i - 1])
    BY <2>1, <1>3 DEF Leads
  <2>3. u[i - 1] = t[a + i - 2] /\ u[i] = t[a + i - 1]
    BY <1>2
  <2> QED
    BY <2>1, <2>2, <2>3
<1>6. cursor - (a - 1) \in 0..Len(cut)
  BY <1>1, <1>2
<1>7. Trail(cut, cursor - (a - 1), content, past)
  BY <1>4, <1>5, <1>6 DEF Trail
<1> QED
  BY <1>2, <1>7 DEF cut

\* A command that has just been executed prolongs the trail.
LEMMA TrailGrows ==
  ASSUME NEW commands \in Seq(Commands), NEW content \in Contents, NEW past,
         Trail(commands, Len(commands), content, past), NEW next \in Contents
  PROVE  LET branch == Append(commands, Changed(content, next)) IN
         /\ branch \in Seq(Commands)
         /\ Len(branch) = Len(commands) + 1
         /\ Trail(branch, Len(branch), next, past \union {next})
<1> DEFINE branch == Append(commands, Changed(content, next))
           n == Len(commands)
<1>1. Changed(content, next) \in Commands
  BY DEF Commands
<1>2. /\ branch \in Seq(Commands) /\ n \in Nat /\ Len(branch) = n + 1
      /\ \A i \in 1..n : branch[i] = commands[i]
      /\ branch[n + 1] = Changed(content, next)
  BY <1>1, AppendProperties
<1>3. PICK t \in [0..n -> past] : t[n] = content /\ Leads(t, commands)
  BY DEF Trail
<1> HIDE DEF branch
<1> DEFINE u == [i \in 0..n + 1 |-> IF i = n + 1 THEN next ELSE t[i]]
<1>4. u \in [0..n + 1 -> past \union {next}] /\ u[n + 1] = next
  BY <1>2, <1>3
<1>5. Leads(u, branch)
  <2> SUFFICES ASSUME NEW i \in 1..n + 1
               PROVE  branch[i] = Changed(u[i - 1], u[i])
    BY <1>2 DEF Leads
  <2>1. CASE i = n + 1
    BY <2>1, <1>2, <1>3
  <2>2. CASE i \in 1..n
    BY <2>2, <1>2, <1>3 DEF Leads
  <2> QED
    BY <2>1, <2>2, <1>2
<1>6. Trail(branch, n + 1, next, past \union {next})
  BY <1>2, <1>4, <1>5 DEF Trail
<1> QED
  BY <1>2, <1>6 DEF branch

\* Undoing a command, or redoing one, moves along the trail.
LEMMA TrailMoves ==
  ASSUME EditAssumption, NEW commands \in Seq(Commands), NEW cursor, NEW content,
         NEW past \in SUBSET Contents, Trail(commands, cursor, content, past)
  PROVE  /\ cursor > 0 =>
              LET y == Apply(Reversed(commands[cursor]), content)
              IN  y \in past /\ Trail(commands, cursor - 1, y, past)
         /\ cursor < Len(commands) =>
              LET y == Apply(commands[cursor + 1], content)
              IN  y \in past /\ Trail(commands, cursor + 1, y, past)
<1>1. cursor \in 0..Len(commands) /\ Len(commands) \in Nat
  BY DEF Trail
<1>2. PICK t \in [0..Len(commands) -> past] :
        t[cursor] = content /\ Leads(t, commands)
  BY DEF Trail
<1>3. ASSUME cursor > 0
      PROVE  /\ Apply(Reversed(commands[cursor]), content) = t[cursor - 1]
             /\ cursor - 1 \in 0..Len(commands)
  <2>1. commands[cursor] = Changed(t[cursor - 1], t[cursor])
    BY <1>1, <1>2, <1>3 DEF Leads
  <2> QED
    BY <2>1, <1>1, <1>2, <1>3, ChangedLeads
<1>4. ASSUME cursor < Len(commands)
      PROVE  /\ Apply(commands[cursor + 1], content) = t[cursor + 1]
             /\ cursor + 1 \in 0..Len(commands)
  <2>1. commands[cursor + 1] = Changed(t[cursor], t[cursor + 1])
    BY <1>1, <1>2, <1>4 DEF Leads
  <2> QED
    BY <2>1, <1>1, <1>2, <1>4, ChangedLeads
<1> QED
  BY <1>2, <1>3, <1>4 DEF Trail

\* What is past stays past.
LEMMA TrailStays ==
  ASSUME NEW commands, NEW cursor, NEW content, NEW past, NEW more,
         past \subseteq more, Trail(commands, cursor, content, past)
  PROVE  Trail(commands, cursor, content, more)
<1>1. PICK t \in [0..Len(commands) -> past] :
        t[cursor] = content /\ Leads(t, commands)
  BY DEF Trail
<1>2. t \in [0..Len(commands) -> more]
  BY <1>1
<1> QED
  BY <1>1, <1>2 DEF Trail

\* A session without commands has been nowhere.
LEMMA TrailStarts ==
  ASSUME NEW content, NEW past, content \in past
  PROVE  Trail(<< >>, 0, content, past)
<1> DEFINE t == [i \in 0..0 |-> content]
<1>1. t \in [0..0 -> past] /\ t[0] = content
  OBVIOUS
<1>2. Len(<< >>) = 0
  OBVIOUS
<1>3. Leads(t, << >>)
  BY <1>2 DEF Leads
<1> HIDE DEF t
<1>4. \E u \in [0..Len(<< >>) -> past] : u[0] = content /\ Leads(u, << >>)
  BY <1>1, <1>2, <1>3
<1> QED
  BY <1>2, <1>4 DEF Trail

-----------------------------------------------------------------------------
(***************************************************************************)
(* The inductive invariant: what holds of the files, of every session, and *)
(* of the snapshots while a session saves alone.                           *)
(***************************************************************************)

Saving == {"comparing", "reading", "unchanged", "copying", "staging", "replacing",
           "pruning", "journaling"}
Filled(content) == {k \in Keys : content[k] # NoText}
KindMaps == UNION {[D -> Kinds] : D \in SUBSET Keys}

\* "channel apply" does not compare, and keeps no history.
Records ==
  [stage : {"idle"}]
  \union [stage : {"opening"}, values : Contents]
  \union [stage : {"open"}, values : Contents, kinds : KindMaps,
          commands : Histories, cursor : Nat]
  \union [stage : Saving, values : Contents, next : Contents, kinds : KindMaps,
          commands : Histories, cursor : Nat]
  \union [stage : Saving \ {"comparing", "journaling"},
          values : Contents, next : Contents]
  \union [stage : {"packing"}, values : Contents, kinds : KindMaps]

\* Every text of a content has a kind, and the authored ones were set by hand.
Vouched(kinds, content, by) ==
  /\ kinds \in [Filled(content) -> Kinds]
  /\ \A k \in Filled(content) : kinds[k] = "authored" => <<k, content[k]>> \in by

\* A session undoes and redoes past contents; what it is about to write is the
\* content at its cursor, and past once it is written.
PastOf(session, past) ==
  /\ session.stage = "opening" => session.values \in past
  /\ session.stage = "open" =>
       Trail(session.commands, session.cursor, session.values, past)
  /\ session.stage \in Saving /\ Journals(session) =>
       Trail(session.commands, session.cursor, session.next, past \union {session.next})
  /\ session.stage \in {"unchanged", "pruning", "journaling"} => session.next \in past

AuthorOf(session, by) ==
  /\ session.stage \in {"open", "packing"} =>
       Vouched(session.kinds, session.values, by)
  /\ session.stage \in Saving /\ Journals(session) =>
       Vouched(session.kinds, session.next, by)

OfSessions ==
  /\ editor \in [Editors -> Records]
  /\ \A e \in Editors : PastOf(editor[e], held) /\ AuthorOf(editor[e], authored)

\* The files belong to the content whose digest they carry.
OfFiles ==
  /\ userIni \in Files /\ Text(userIni) \in held
  /\ held \subseteq Contents
  /\ snapshots \in Seq(Contents)
  /\ edits \in 0..MaxEdits
  /\ alone \subseteq Editors
  /\ origins # Missing =>
       /\ origins.digest \in Contents
       /\ Vouched(origins.kinds, origins.digest, authored)
  /\ history # Missing =>
       /\ history.digest \in Contents
       /\ history.commands \in Histories
       /\ Trail(history.commands, history.cursor, history.digest, held)
  /\ pack # Missing => \A k \in DOMAIN pack : <<k, pack[k]>> \in authored

\* A session that saves alone has copied the text that it will replace.
Copied ==
  \A e \in alone :
    /\ editor[e].stage \in {"staging", "replacing"}
    /\ userIni # Missing
    /\ Retention > 0
    => Len(snapshots) > 0 /\ snapshots[1] = userIni

IInv == OfFiles /\ OfSessions /\ Copied

-----------------------------------------------------------------------------
(***************************************************************************)
(* Sessions.                                                               *)
(***************************************************************************)

LEMMA Fields ==
  ASSUME NEW r \in Records
  PROVE  /\ r.stage \in {"idle", "opening", "open", "packing"} \union Saving
         /\ r.stage # "idle" => r.values \in Contents
         /\ r.stage \in Saving => r.next \in Contents
         /\ r.stage \in {"open", "packing"} => r.kinds \in KindMaps
         /\ r.stage = "open" => r.commands \in Histories /\ r.cursor \in Nat
         /\ r.stage \in Saving /\ Journals(r) =>
              r.kinds \in KindMaps /\ r.commands \in Histories /\ r.cursor \in Nat
         /\ r.stage \in {"comparing", "journaling"} => Journals(r)
BY DEF Records, Saving, Journals

\* A save goes on with what it has decided.
LEMMA Moved ==
  ASSUME NEW r \in Records, r.stage \in Saving, NEW s \in Saving,
         s \in {"comparing", "journaling"} => Journals(r),
         NEW q, q = [r EXCEPT !.stage = s]
  PROVE  /\ q \in Records /\ q.stage = s
         /\ q.values = r.values /\ q.next = r.next
         /\ Journals(q) <=> Journals(r)
         /\ Journals(r) => /\ q.kinds = r.kinds /\ q.commands = r.commands
                           /\ q.cursor = r.cursor
<1>1. CASE r \in [stage : Saving, values : Contents, next : Contents, kinds : KindMaps,
                  commands : Histories, cursor : Nat]
  BY <1>1 DEF Records, Journals
<1>2. CASE r \in [stage : Saving \ {"comparing", "journaling"},
                  values : Contents, next : Contents]
  <2>1. ~Journals(r)
    BY <1>2 DEF Journals
  <2> QED
    BY <1>2, <2>1 DEF Records, Journals
<1> QED
  BY <1>1, <1>2 DEF Records, Saving

LEMMA VouchedStays ==
  ASSUME NEW kinds, NEW content, NEW by, NEW more, by \subseteq more,
         Vouched(kinds, content, by)
  PROVE  Vouched(kinds, content, more)
BY DEF Vouched

LEMMA PastStays ==
  ASSUME NEW session, NEW past, NEW more, past \subseteq more, PastOf(session, past)
  PROVE  PastOf(session, more)
<1>1. past \union {session.next} \subseteq more \union {session.next}
  OBVIOUS
<1> QED
  BY <1>1, TrailStays DEF PastOf

LEMMA AuthorStays ==
  ASSUME NEW session, NEW by, NEW more, by \subseteq more, AuthorOf(session, by)
  PROVE  AuthorOf(session, more)
BY VouchedStays DEF AuthorOf

\* Only one session has changed, to a record that is in order.
LEMMA OneBecomes ==
  ASSUME OfSessions, NEW e \in Editors, NEW q \in Records, Become(e, q),
         held \subseteq held', authored \subseteq authored',
         PastOf(q, held'), AuthorOf(q, authored')
  PROVE  OfSessions'
<1>1. editor' \in [Editors -> Records]
  BY DEF OfSessions, Become
<1>2. ASSUME NEW o \in Editors
      PROVE  PastOf(editor'[o], held') /\ AuthorOf(editor'[o], authored')
  <2>1. CASE o = e
    BY <2>1 DEF OfSessions, Become
  <2>2. CASE o # e
    BY <2>2, PastStays, AuthorStays DEF OfSessions, Become
  <2> QED
    BY <2>1, <2>2
<1> QED
  BY <1>1, <1>2 DEF OfSessions

LEMMA OneQuits ==
  ASSUME OfSessions, NEW e \in Editors, Quit(e),
         held \subseteq held', authored \subseteq authored'
  PROVE  OfSessions'
<1>1. Idle \in Records /\ Idle.stage = "idle"
  BY DEF Records, Idle
<1>2. PastOf(Idle, held') /\ AuthorOf(Idle, authored')
  BY <1>1 DEF PastOf, AuthorOf, Saving
<1> QED
  BY <1>1, <1>2, OneBecomes DEF Quit

\* A save that goes on: it may call its content past only if it is.
LEMMA OneGoesOn ==
  ASSUME OfSessions, NEW e \in Editors, editor[e].stage \in Saving,
         NEW s \in Saving, Goto(e, s),
         s \in {"comparing", "journaling"} => Journals(editor[e]),
         s \in {"unchanged", "pruning", "journaling"} => editor[e].next \in held',
         held \subseteq held', authored \subseteq authored'
  PROVE  OfSessions'
<1> DEFINE r == editor[e]
           q == [r EXCEPT !.stage = s]
<1>1. r \in Records /\ PastOf(r, held') /\ AuthorOf(r, authored')
  BY PastStays, AuthorStays DEF OfSessions
<1>2. /\ q \in Records /\ q.stage = s /\ q.values = r.values /\ q.next = r.next
      /\ Journals(q) <=> Journals(r)
      /\ Journals(r) => /\ q.kinds = r.kinds /\ q.commands = r.commands
                        /\ q.cursor = r.cursor
  BY <1>1, Moved
<1>3. Become(e, q)
  BY DEF Goto, Become, OfSessions
<1> HIDE DEF q, r
<1>4. PastOf(q, held')
  <2>1. s \notin {"opening", "open"}
    BY DEF Saving
  <2>2. r.stage \in Saving /\ r.next = editor[e].next
    BY DEF r
  <2> QED
    BY <1>1, <1>2, <2>1, <2>2 DEF PastOf
<1>5. AuthorOf(q, authored')
  <2>1. s \notin {"open", "packing"}
    BY DEF Saving
  <2>2. r.stage \in Saving
    BY DEF r
  <2> QED
    BY <1>1, <1>2, <2>1, <2>2 DEF AuthorOf
<1> QED
  BY <1>2, <1>3, <1>4, <1>5, OneBecomes

LEMMA KindsTyped ==
  ASSUME NEW content, NEW kinds \in [Filled(content) -> Kinds]
  PROVE  kinds \in KindMaps
BY DEF KindMaps, Filled

LEMMA KindsOfVouched ==
  ASSUME OfFiles, NEW content
  PROVE  Vouched(KindsOf(content), content, authored)
<1> DEFINE known == origins # Missing /\ origins.digest = content
<1>1. CASE known
  <2>1. /\ origins.kinds \in [Filled(content) -> Kinds]
        /\ \A k \in Filled(content) :
             origins.kinds[k] = "authored" => <<k, content[k]>> \in authored
    BY <1>1 DEF OfFiles, Vouched
  <2>2. KindsOf(content) = [k \in Filled(content) |-> origins.kinds[k]]
    BY <1>1 DEF KindsOf, Filled
  <2> QED
    BY <2>1, <2>2 DEF Vouched
<1>2. CASE ~known
  <2>1. KindsOf(content) = [k \in Filled(content) |-> "unknown"]
    BY <1>2 DEF KindsOf, Filled
  <2> QED
    BY <2>1 DEF Vouched, Kinds
<1> QED
  BY <1>1, <1>2

\* A session knows the content it has loaded, and its kinds and commands.
LEMMA OpenSession ==
  ASSUME EditAssumption, OfFiles, OfSessions,
         NEW e \in Editors, editor[e].stage = "open"
  PROVE  /\ editor[e].values \in Contents
         /\ editor[e].commands \in Seq(Commands)
         /\ Len(editor[e].commands) \in Nat
         /\ Len(editor[e].commands) <= MaxHistory
         /\ editor[e].cursor \in 0..Len(editor[e].commands)
         /\ Trail(editor[e].commands, editor[e].cursor, editor[e].values, held)
         /\ Vouched(editor[e].kinds, editor[e].values, authored)
<1>1. editor[e] \in Records
  BY DEF OfSessions
<1>2. editor[e].commands \in Histories /\ editor[e].values \in Contents
  BY <1>1, Fields
<1>3. Trail(editor[e].commands, editor[e].cursor, editor[e].values, held)
  BY DEF OfSessions, PastOf
<1>4. Vouched(editor[e].kinds, editor[e].values, authored)
  BY DEF OfSessions, AuthorOf
<1> QED
  BY <1>2, <1>3, <1>4 DEF Histories, Trail

\* What a session decides to write, with its kinds and its commands.
LEMMA OneDecides ==
  ASSUME OfSessions, NEW e \in Editors, editor[e].values \in Contents,
         NEW values \in Contents, NEW kinds, NEW commands \in Histories, NEW cursor,
         Decide(e, values, kinds, commands, cursor),
         held' = held, authored \subseteq authored',
         Trail(commands, cursor, values, held \union {values}),
         Vouched(kinds, values, authored')
  PROVE  OfSessions'
<1> DEFINE q == [stage |-> "comparing", values |-> editor[e].values, next |-> values,
                 kinds |-> kinds, commands |-> commands, cursor |-> cursor]
<1>1. Become(e, q)
  BY DEF Decide
<1>2. kinds \in KindMaps /\ cursor \in Nat
  <2>1. kinds \in KindMaps
    BY KindsTyped DEF Vouched
  <2>2. cursor \in Nat
    BY DEF Trail
  <2> QED
    BY <2>1, <2>2
<1>3. q \in Records
  BY <1>2 DEF Records, Saving
<1>4. PastOf(q, held') /\ AuthorOf(q, authored')
  BY DEF PastOf, AuthorOf, Saving, Journals
<1> QED
  BY <1>1, <1>3, <1>4, OneBecomes

\* Executing a command prolongs the trail up to the cursor.
LEMMA ExecuteStep ==
  ASSUME EditAssumption, OfFiles, OfSessions,
         NEW e \in Editors, editor[e].stage = "open",
         NEW values \in Contents, NEW kindOf \in [Keys -> Kinds],
         Execute(e, values, kindOf)
  PROVE  OfSessions'
<1> DEFINE session  == editor[e]
           command  == Changed(session.values, values)
           done     == SubSeq(session.commands, 1, session.cursor)
           branch   == Append(done, command)
           excess   == IF Len(branch) > MaxHistory THEN Len(branch) - MaxHistory ELSE 0
           commands == SubSeq(branch, excess + 1, Len(branch))
           kinds    == [k \in {k \in Keys : values[k] # NoText} |->
                          IF k \in DOMAIN command THEN kindOf[k] ELSE session.kinds[k]]
<1>1. /\ session.values \in Contents
      /\ session.commands \in Seq(Commands)
      /\ Len(session.commands) \in Nat
      /\ session.cursor \in 0..Len(session.commands)
      /\ Trail(session.commands, session.cursor, session.values, held)
      /\ Vouched(session.kinds, session.values, authored)
  BY OpenSession
<1>2. /\ Decide(e, values, kinds, commands, Len(commands))
      /\ authored' = authored \union
           {<<k, values[k]>> : k \in {k \in DOMAIN kinds :
                                        k \in DOMAIN command /\ kindOf[k] = "authored"}}
      /\ held' = held
  BY DEF Execute
<1>3. Vouched(kinds, values, authored')
  <2>1. \A k \in Filled(values) :
          k \notin DOMAIN command => values[k] = session.values[k]
    BY DEF Changed, Filled
  <2>2. kinds \in [Filled(values) -> Kinds]
    BY <1>1, <2>1 DEF Vouched, Filled
  <2>3. ASSUME NEW k \in Filled(values), kinds[k] = "authored"
        PROVE  <<k, values[k]>> \in authored'
    <3>1. CASE k \in DOMAIN command
      BY <1>2, <2>3, <3>1 DEF Filled
    <3>2. CASE k \notin DOMAIN command
      <4>1. k \in Filled(session.values) /\ session.kinds[k] = "authored"
        BY <2>1, <2>3, <3>2 DEF Filled
      <4> QED
        BY <4>1, <2>1, <3>2, <1>1, <1>2 DEF Vouched
    <3> QED
      BY <3>1, <3>2
  <2> QED
    BY <2>2, <2>3 DEF Vouched
<1> HIDE DEF kinds
<1>4. /\ done \in Seq(Commands)
      /\ Len(done) = session.cursor
      /\ Trail(done, session.cursor, session.values, held)
  <2> HIDE DEF session
  <2> QED
    BY <1>1, TrailCut
<1> HIDE DEF done
<1>5. /\ branch \in Seq(Commands)
      /\ Len(branch) = Len(done) + 1
      /\ Trail(branch, Len(branch), values, held \union {values})
  <2> HIDE DEF session
  <2> QED
    BY <1>1, <1>4, TrailGrows
<1> HIDE DEF branch
<1>6. excess \in Nat /\ excess <= Len(branch) /\ Len(branch) \in Nat
      /\ Len(branch) - excess <= MaxHistory
  BY <1>5, <1>4, <1>1 DEF EditAssumption
<1> HIDE DEF excess
<1>7. /\ commands \in Seq(Commands)
      /\ Len(commands) = Len(branch) - excess
      /\ Trail(commands, Len(branch) - excess, values, held \union {values})
  <2>1. /\ commands \in Seq(Commands)
        /\ Len(commands) = Len(branch) - (excess + 1) + 1
        /\ Trail(commands, Len(branch) - (excess + 1 - 1), values, held \union {values})
    BY <1>5, <1>6, TrailCut
  <2> QED
    BY <2>1, <1>6
<1> HIDE DEF commands
<1>8. commands \in Histories /\ Trail(commands, Len(commands), values, held \union {values})
  BY <1>6, <1>7 DEF Histories
<1> HIDE DEF session
<1> QED
  BY <1>1, <1>2, <1>3, <1>8, OneDecides DEF session

\* Undone and redone texts are nobody's.
LEMMA RestoredVouched ==
  ASSUME NEW session, NEW values, NEW command, NEW by,
         \A k \in Keys : k \notin DOMAIN command => values[k] = session.values[k],
         Vouched(session.kinds, session.values, by)
  PROVE  Vouched(Restored(session, values, command), values, by)
<1>1. Restored(session, values, command) \in [Filled(values) -> Kinds]
  BY DEF Restored, RestoredKind, Filled, Kinds, Vouched
<1>2. ASSUME NEW k \in Filled(values),
             Restored(session, values, command)[k] = "authored"
      PROVE  <<k, values[k]>> \in by
  BY <1>2 DEF Restored, RestoredKind, Filled, Vouched
<1> QED
  BY <1>1, <1>2 DEF Vouched

LEMMA UndoStep ==
  ASSUME EditAssumption, OfFiles, OfSessions, NEW e \in Editors, Undo(e)
  PROVE  OfSessions'
<1> DEFINE session == editor[e]
           command == session.commands[session.cursor]
           values  == Apply(Reversed(command), session.values)
<1>1. /\ session.values \in Contents
      /\ session.commands \in Seq(Commands)
      /\ session.commands \in Histories
      /\ session.cursor \in 0..Len(session.commands)
      /\ Trail(session.commands, session.cursor, session.values, held)
      /\ Vouched(session.kinds, session.values, authored)
  BY OpenSession DEF Undo, Histories
<1>2. /\ session.cursor > 0
      /\ Decide(e, values, Restored(session, values, command),
                session.commands, session.cursor - 1)
      /\ held' = held /\ authored' = authored
  BY DEF Undo, ghosts
<1>3. held \subseteq Contents
  BY DEF OfFiles
<1>4. values \in held /\ Trail(session.commands, session.cursor - 1, values, held)
  <2> HIDE DEF session
  <2> QED
    BY <1>1, <1>2, <1>3, TrailMoves
<1>5. \A k \in Keys : k \notin DOMAIN command => values[k] = session.values[k]
  BY DEF Apply, Reversed
<1> HIDE DEF session, command, values
<1>6. Vouched(Restored(session, values, command), values, authored)
  BY <1>1, <1>5, RestoredVouched
<1>7. Trail(session.commands, session.cursor - 1, values, held \union {values})
  BY <1>4, TrailStays
<1> QED
  BY <1>1, <1>2, <1>3, <1>4, <1>6, <1>7, OneDecides DEF session

LEMMA RedoStep ==
  ASSUME EditAssumption, OfFiles, OfSessions, NEW e \in Editors, Redo(e)
  PROVE  OfSessions'
<1> DEFINE session == editor[e]
           command == session.commands[session.cursor + 1]
           values  == Apply(command, session.values)
<1>1. /\ session.values \in Contents
      /\ session.commands \in Seq(Commands)
      /\ session.commands \in Histories
      /\ session.cursor \in 0..Len(session.commands)
      /\ Trail(session.commands, session.cursor, session.values, held)
      /\ Vouched(session.kinds, session.values, authored)
  BY OpenSession DEF Redo, Histories
<1>2. /\ session.cursor < Len(session.commands)
      /\ Decide(e, values, Restored(session, values, command),
                session.commands, session.cursor + 1)
      /\ held' = held /\ authored' = authored
  BY DEF Redo, ghosts
<1>3. held \subseteq Contents
  BY DEF OfFiles
<1>4. values \in held /\ Trail(session.commands, session.cursor + 1, values, held)
  <2> HIDE DEF session
  <2> QED
    BY <1>1, <1>2, <1>3, TrailMoves
<1>5. \A k \in Keys : k \notin DOMAIN command => values[k] = session.values[k]
  BY DEF Apply
<1> HIDE DEF session, command, values
<1>6. Vouched(Restored(session, values, command), values, authored)
  BY <1>1, <1>5, RestoredVouched
<1>7. Trail(session.commands, session.cursor + 1, values, held \union {values})
  BY <1>4, TrailStays
<1> QED
  BY <1>1, <1>2, <1>3, <1>4, <1>6, <1>7, OneDecides DEF session

\* Whatever the player resolves, an import gives every key a text it may have.
LEMMA OutcomesTyped ==
  ASSUME NEW current \in Contents, NEW incoming \in Contents,
         NEW f \in Outcomes(current, incoming)
  PROVE  /\ [k \in Keys |-> f[k].text] \in Contents
         /\ [k \in Keys |-> f[k].kind] \in [Keys -> Kinds]
<1> DEFINE Typed(k) == [text : Texts[k] \union {NoText}, kind : Kinds]
<1>1. ASSUME NEW k \in Keys
      PROVE  f[k] \in Typed(k)
  <2>1. current[k] \in Texts[k] \union {NoText} /\ incoming[k] \in Texts[k] \union {NoText}
    BY DEF Contents
  <2>2. ASSUME NEW c \in Resolutions
        PROVE  Resolved(k, current[k], incoming[k], c) \subseteq Typed(k)
    <3>1. CASE c = "keep"
      BY <3>1, <2>1 DEF Resolved, Kinds
    <3>2. CASE c = "import"
      BY <3>2, <2>1 DEF Resolved, Kinds
    <3>3. CASE c \in {"append", "prepend"}
      BY <3>3, <2>1 DEF Resolved, Kinds
    <3>4. CASE c = "custom"
      BY <3>4, <2>1 DEF Resolved, Kinds
    <3> QED
      BY <3>1, <3>2, <3>3, <3>4 DEF Resolutions
  <2>3. f[k] \in IF incoming[k] = NoText \/ incoming[k] = current[k]
                   THEN {[text |-> current[k], kind |-> "unknown"]}
                 ELSE IF current[k] = NoText
                   THEN {[text |-> incoming[k], kind |-> "imported"]}
                 ELSE UNION {Resolved(k, current[k], incoming[k], c) : c \in Resolutions}
    BY DEF Outcomes
  <2> QED
    BY <2>1, <2>2, <2>3 DEF Kinds
<1> HIDE DEF Typed
<1>2. \A k \in Keys : f[k].text \in Texts[k] \union {NoText} /\ f[k].kind \in Kinds
  BY <1>1 DEF Typed
<1>3. [k \in Keys |-> f[k].text] \in
        [Keys -> (UNION {Texts[k] : k \in Keys}) \union {NoText}]
  BY <1>2
<1> QED
  BY <1>2, <1>3 DEF Contents

LEMMA OpenStep ==
  ASSUME OfFiles, OfSessions, NEW e \in Editors, Open(e)
  PROVE  OfSessions'
<1> DEFINE q == [stage |-> "opening", values |-> Text(userIni)]
<1>1. Text(userIni) \in held /\ Text(userIni) \in Contents
  BY DEF OfFiles
<1>2. q \in Records
  BY <1>1 DEF Records
<1>3. PastOf(q, held) /\ AuthorOf(q, authored)
  BY <1>1 DEF PastOf, AuthorOf, Saving
<1> QED
  BY <1>2, <1>3, OneBecomes DEF Open, ghosts

\* The commands are taken over only with the content they lead to.
LEMMA RecallStep ==
  ASSUME EditAssumption, OfFiles, OfSessions, NEW e \in Editors, Recall(e)
  PROVE  OfSessions'
<1> DEFINE values   == editor[e].values
           fits     == HistoryFits(values)
           commands == IF fits THEN history.commands ELSE << >>
           cursor   == IF fits THEN history.cursor ELSE 0
           q == [stage |-> "open", values |-> values, kinds |-> KindsOf(values),
                 commands |-> commands, cursor |-> cursor]
<1>1. values \in Contents /\ values \in held
  BY Fields DEF Recall, OfSessions, PastOf
<1>2. Vouched(KindsOf(values), values, authored)
  BY KindsOfVouched
<1>3. KindsOf(values) \in KindMaps
  BY <1>2, KindsTyped DEF Vouched
<1>4. commands \in Histories /\ cursor \in Nat /\ Trail(commands, cursor, values, held)
  <2>1. CASE fits
    BY <2>1 DEF HistoryFits, DigestFits, OfFiles, Trail
  <2>2. CASE ~fits
    <3>1. << >> \in Histories
      BY DEF Histories, EditAssumption
    <3> HIDE DEF values
    <3> QED
      BY <2>2, <3>1, <1>1, TrailStarts
  <2> QED
    BY <2>1, <2>2
<1>5. Become(e, q) /\ held' = held /\ authored' = authored
  BY DEF Recall, ghosts
<1> HIDE DEF values, fits, commands, cursor
<1>6. q \in Records
  BY <1>1, <1>3, <1>4 DEF Records
<1>7. PastOf(q, held) /\ AuthorOf(q, authored)
  BY <1>2, <1>4 DEF PastOf, AuthorOf, Saving
<1> QED
  BY <1>5, <1>6, <1>7, OneBecomes

LEMMA NormalizeStep ==
  ASSUME OfFiles, OfSessions, NEW e \in Editors, Normalize(e)
  PROVE  OfSessions'
<1> DEFINE q == [stage |-> "reading", values |-> userIni, next |-> userIni]
<1>1. userIni \in Contents
  BY DEF OfFiles, Normalize, Files
<1>2. q \in Records
  BY <1>1 DEF Records, Saving
<1>3. PastOf(q, held) /\ AuthorOf(q, authored)
  BY DEF PastOf, AuthorOf, Saving, Journals
<1> QED
  BY <1>2, <1>3, OneBecomes DEF Normalize, ghosts

LEMMA PlanPackStep ==
  ASSUME OfFiles, OfSessions, NEW e \in Editors, PlanPack(e)
  PROVE  OfSessions'
<1> DEFINE values == Text(userIni)
           q == [stage |-> "packing", values |-> values, kinds |-> KindsOf(values)]
<1>1. values \in Contents
  BY DEF OfFiles
<1>2. Vouched(KindsOf(values), values, authored)
  BY KindsOfVouched
<1>3. KindsOf(values) \in KindMaps
  BY <1>2, KindsTyped DEF Vouched
<1>4. q \in Records
  BY <1>1, <1>3 DEF Records
<1>5. PastOf(q, held) /\ AuthorOf(q, authored)
  BY <1>2 DEF PastOf, AuthorOf, Saving
<1> QED
  BY <1>4, <1>5, OneBecomes DEF PlanPack, ghosts

LEMMA SessionsStep ==
  ASSUME EditAssumption, OfFiles, OfSessions, Next
  PROVE  OfSessions'
<1>1. ASSUME NEW e \in Editors, Open(e) PROVE OfSessions'
  BY <1>1, OpenStep
<1>2. ASSUME NEW e \in Editors, Recall(e) PROVE OfSessions'
  BY <1>2, RecallStep
<1>3. ASSUME NEW e \in Editors, Edit(e) PROVE OfSessions'
  <2>1. [k \in Keys |-> "authored"] \in [Keys -> Kinds]
    BY DEF Kinds
  <2> QED
    BY <1>3, <2>1, ExecuteStep DEF Edit
<1>4. ASSUME NEW e \in Editors, Import(e) PROVE OfSessions'
  <2>1. PICK incoming \in Contents :
          \E f \in Outcomes(editor[e].values, incoming) :
            Execute(e, [k \in Keys |-> f[k].text], [k \in Keys |-> f[k].kind])
    BY <1>4 DEF Import
  <2>2. PICK f \in Outcomes(editor[e].values, incoming) :
          Execute(e, [k \in Keys |-> f[k].text], [k \in Keys |-> f[k].kind])
    BY <2>1
  <2>3. editor[e].stage = "open" /\ editor[e].values \in Contents
    BY <1>4, OpenSession DEF Import
  <2>4. /\ [k \in Keys |-> f[k].text] \in Contents
        /\ [k \in Keys |-> f[k].kind] \in [Keys -> Kinds]
    BY <2>2, <2>3, OutcomesTyped
  <2> QED
    BY <2>2, <2>3, <2>4, ExecuteStep
<1>5. ASSUME NEW e \in Editors, Undo(e) PROVE OfSessions'
  BY <1>5, UndoStep
<1>6. ASSUME NEW e \in Editors, Redo(e) PROVE OfSessions'
  BY <1>6, RedoStep
<1>7. ASSUME NEW e \in Editors, Normalize(e) PROVE OfSessions'
  BY <1>7, NormalizeStep
<1>8. ASSUME NEW e \in Editors, Compare(e) PROVE OfSessions'
  BY <1>8, OneGoesOn, OneQuits DEF Compare, ghosts, Saving
<1>9. ASSUME NEW e \in Editors, ReadCurrent(e) PROVE OfSessions'
  <2>1. editor[e].next \in Contents /\ editor[e].stage \in Saving
    BY <1>9, Fields DEF ReadCurrent, OfSessions, Saving
  <2>2. CASE userIni = editor[e].next
    <3>1. editor[e].next \in held
      BY <2>1, <2>2 DEF OfFiles, Text, EditAssumption
    <3>2. Goto(e, "unchanged") /\ held' = held /\ authored' = authored
      BY <1>9, <2>1, <2>2 DEF ReadCurrent, EditAssumption
    <3> QED
      BY <2>1, <3>1, <3>2, OneGoesOn DEF Saving
  <2>3. CASE userIni # editor[e].next
    <3>1. \E s \in {"staging", "copying"} : Goto(e, s)
      BY <1>9, <2>3 DEF ReadCurrent
    <3>2. held' = held /\ authored' = authored
      BY <1>9 DEF ReadCurrent
    <3> QED
      BY <2>1, <3>1, <3>2, OneGoesOn DEF Saving
  <2> QED
    BY <2>2, <2>3
<1>10. ASSUME NEW e \in Editors, Snapshot(e) PROVE OfSessions'
  BY <1>10, OneGoesOn DEF Snapshot, ghosts, Saving
<1>11. ASSUME NEW e \in Editors, StageOrigins(e) PROVE OfSessions'
  <2>1. editor[e].stage = "unchanged" => editor[e].next \in held
    BY DEF OfSessions, PastOf
  <2> QED
    BY <1>11, <2>1, OneGoesOn, OneQuits DEF StageOrigins, ghosts, Saving
<1>12. ASSUME NEW e \in Editors, Replace(e) PROVE OfSessions'
  BY <1>12, OneGoesOn DEF Replace, Saving
<1>13. ASSUME NEW e \in Editors, Prune(e) PROVE OfSessions'
  <2>1. editor[e].stage = "pruning" /\ editor[e].next \in held
    BY <1>13 DEF Prune, OfSessions, PastOf
  <2> QED
    BY <1>13, <2>1, OneGoesOn, OneQuits DEF Prune, ghosts, Saving
<1>14. ASSUME NEW e \in Editors, WriteHistory(e) PROVE OfSessions'
  BY <1>14, OneQuits DEF WriteHistory, ghosts
<1>15. ASSUME NEW e \in Editors, Stop(e) PROVE OfSessions'
  BY <1>15, OneQuits DEF Stop, ghosts
<1>16. ASSUME NEW e \in Editors, PlanPack(e) PROVE OfSessions'
  BY <1>16, PlanPackStep
<1>17. ASSUME NEW e \in Editors, WritePack(e) PROVE OfSessions'
  BY <1>17, OneQuits DEF WritePack, ghosts
<1>18. ASSUME OutsideWrite PROVE OfSessions'
  BY <1>18, PastStays DEF OutsideWrite, OfSessions
<1> QED
  BY <1>1, <1>2, <1>3, <1>4, <1>5, <1>6, <1>7, <1>8, <1>9, <1>10, <1>11, <1>12,
     <1>13, <1>14, <1>15, <1>16, <1>17, <1>18 DEF Next, Step

-----------------------------------------------------------------------------
(***************************************************************************)
(* Files.                                                                  *)
(***************************************************************************)

\* Most actions change no file, or only the counters and ghosts.
LEMMA FilesKept ==
  ASSUME OfFiles, UNCHANGED files, held' = held, authored \subseteq authored',
         edits' \in 0..MaxEdits, alone' \subseteq Editors
  PROVE  OfFiles'
BY VouchedStays DEF OfFiles, files, Files

\* What may be written next to a content that is past.
LEMMA JournalStep ==
  ASSUME EditAssumption, OfFiles, OfSessions, NEW e \in Editors, WriteHistory(e)
  PROVE  /\ history'.digest \in Contents
         /\ history'.commands \in Histories
         /\ Trail(history'.commands, history'.cursor, history'.digest, held)
<1> DEFINE session == editor[e]
           size == Len(session.commands)
<1>1. /\ session.next \in Contents /\ session.next \in held
      /\ session.commands \in Histories
      /\ Trail(session.commands, session.cursor, session.next, held \union {session.next})
  <2>1. session \in Records /\ session.stage = "journaling"
    BY DEF WriteHistory, OfSessions
  <2>2. Journals(session) /\ session.next \in Contents /\ session.commands \in Histories
    BY <2>1, Fields DEF Saving
  <2> QED
    BY <2>1, <2>2 DEF OfSessions, PastOf, Saving
<1>2. /\ Trail(session.commands, session.cursor, session.next, held)
      /\ session.commands \in Seq(Commands) /\ size \in Nat /\ size <= MaxHistory
      /\ session.cursor \in 0..size
  <2>1. held \union {session.next} = held
    BY <1>1
  <2>2. Trail(session.commands, session.cursor, session.next, held)
    BY <1>1, <2>1
  <2> QED
    BY <1>1, <2>2 DEF Histories, Trail
<1>3. PICK n \in 0..size :
        history' = [digest   |-> session.next,
                    commands |-> Shrunk(session.commands, session.cursor, n).commands,
                    cursor   |-> Shrunk(session.commands, session.cursor, n).cursor]
  BY DEF WriteHistory
<1> HIDE DEF session
<1>4. CASE n <= session.cursor
  <2> DEFINE kept == SubSeq(session.commands, n + 1, size)
  <2>1. /\ kept \in Seq(Commands) /\ Len(kept) = size - (n + 1) + 1
        /\ Trail(kept, session.cursor - (n + 1 - 1), session.next, held)
    BY <1>2, <1>4, TrailCut
  <2> HIDE DEF kept
  <2>2. Trail(kept, session.cursor - n, session.next, held) /\ kept \in Histories
    <3>1. n + 1 - 1 = n /\ size - (n + 1) + 1 <= MaxHistory
      BY <1>2 DEF EditAssumption
    <3> QED
      BY <2>1, <3>1 DEF Histories
  <2>3. history' = [digest |-> session.next, commands |-> kept,
                    cursor |-> session.cursor - n]
    BY <1>3, <1>4 DEF Shrunk, kept
  <2> QED
    BY <1>1, <2>2, <2>3
<1>5. CASE ~(n <= session.cursor)
  <2> DEFINE a == session.cursor + 1
             z == size - (n - session.cursor)
             kept == SubSeq(session.commands, a, z)
  <2>1. a \in Nat /\ z \in Nat /\ a >= 1 /\ a - 1 = session.cursor
        /\ session.cursor <= z /\ z <= size
    BY <1>2, <1>5
  <2> HIDE DEF a, z
  <2>2. /\ kept \in Seq(Commands) /\ Len(kept) = z - a + 1
        /\ Trail(kept, session.cursor - (a - 1), session.next, held)
    BY <1>2, <2>1, TrailCut
  <2> HIDE DEF kept
  <2>3. Trail(kept, 0, session.next, held) /\ kept \in Histories
    <3>1. session.cursor - (a - 1) = 0 /\ z - a + 1 <= MaxHistory
      BY <2>1, <1>2 DEF EditAssumption
    <3> QED
      BY <2>2, <3>1 DEF Histories
  <2>4. history' = [digest |-> session.next, commands |-> kept, cursor |-> 0]
    BY <1>3, <1>5 DEF Shrunk, kept, a, z
  <2> QED
    BY <1>1, <2>3, <2>4
<1> QED
  BY <1>4, <1>5

LEMMA FilesStep ==
  ASSUME EditAssumption, OfFiles, OfSessions, Next
  PROVE  OfFiles'
<1>0. edits \in 0..MaxEdits /\ alone \subseteq Editors /\ MaxEdits \in Nat
  BY DEF OfFiles, EditAssumption
<1>1. ASSUME NEW e \in Editors,
             Open(e) \/ Recall(e) \/ Edit(e) \/ Import(e) \/ Undo(e) \/ Redo(e)
               \/ Normalize(e) \/ Compare(e) \/ ReadCurrent(e) \/ Stop(e) \/ PlanPack(e)
      PROVE  OfFiles'
  <2>1. UNCHANGED files /\ held' = held /\ authored \subseteq authored'
    BY <1>1 DEF Open, Recall, Edit, Import, Execute, Undo, Redo, Normalize, Compare,
                ReadCurrent, Stop, PlanPack, ghosts
  <2>2. edits' \in 0..MaxEdits /\ alone' \subseteq Editors
    <3>1. CASE Open(e) \/ Normalize(e) \/ PlanPack(e)
      BY <1>0, <3>1 DEF Open, Normalize, PlanPack, ghosts
    <3>2. CASE ReadCurrent(e)
      BY <1>0, <3>2 DEF ReadCurrent
    <3>3. CASE Edit(e) \/ Import(e)
      BY <1>0, <3>3 DEF Edit, Import, Execute
    <3>4. CASE Recall(e) \/ Undo(e) \/ Redo(e) \/ Compare(e) \/ Stop(e)
      BY <1>0, <3>4 DEF Recall, Undo, Redo, Compare, Stop, ghosts
    <3> QED
      BY <1>1, <3>1, <3>2, <3>3, <3>4
  <2> QED
    BY <2>1, <2>2, FilesKept
<1>2. ASSUME NEW e \in Editors, Snapshot(e)
      PROVE  OfFiles'
  <2>1. << Text(userIni) >> \in Seq(Contents) /\ snapshots \in Seq(Contents)
    BY DEF OfFiles
  <2>2. << Text(userIni) >> \o snapshots \in Seq(Contents)
    BY <2>1, ConcatProperties
  <2> QED
    BY <1>2, <2>1, <2>2 DEF Snapshot, OfFiles, ghosts
<1>3. ASSUME NEW e \in Editors, StageOrigins(e)
      PROVE  OfFiles'
  <2>1. CASE Journals(editor[e])
    <3>1. editor[e] \in Records /\ editor[e].stage \in Saving
      BY <1>3 DEF StageOrigins, Saving, OfSessions
    <3>2. /\ editor[e].next \in Contents
          /\ Vouched(editor[e].kinds, editor[e].next, authored)
      BY <3>1, <2>1, Fields DEF OfSessions, AuthorOf
    <3>3. origins' = [digest |-> editor[e].next, kinds |-> editor[e].kinds]
      BY <1>3, <2>1 DEF StageOrigins
    <3> QED
      BY <1>3, <3>2, <3>3 DEF StageOrigins, OfFiles, ghosts
  <2>2. CASE ~Journals(editor[e])
    BY <1>3, <2>2 DEF StageOrigins, OfFiles, ghosts
  <2> QED
    BY <2>1, <2>2
<1>4. ASSUME NEW e \in Editors, Replace(e)
      PROVE  OfFiles'
  <2>1. editor[e].next \in Contents
    BY <1>4, Fields DEF Replace, OfSessions, Saving
  <2>2. userIni' \in Contents /\ Text(userIni') = userIni' /\ held' = held \union {userIni'}
    BY <1>4, <2>1 DEF Replace, Text, EditAssumption
  <2>3. history # Missing =>
          Trail(history.commands, history.cursor, history.digest, held')
    BY <2>2, TrailStays DEF OfFiles
  <2> QED
    BY <1>4, <2>2, <2>3 DEF Replace, OfFiles, Files
<1>5. ASSUME NEW e \in Editors, Prune(e)
      PROVE  OfFiles'
  <2>1. snapshots \in Seq(Contents) /\ Len(snapshots) \in Nat /\ Retention \in Nat
    BY DEF OfFiles, EditAssumption
  <2>2. PICK kept \in 0..Len(snapshots) : snapshots' = SubSeq(snapshots, 1, kept)
    BY <1>5, <2>1 DEF Prune
  <2>3. snapshots' \in Seq(Contents)
    BY <2>1, <2>2, SubSeqProperties
  <2> QED
    BY <1>5, <2>3 DEF Prune, OfFiles, ghosts
<1>6. ASSUME NEW e \in Editors, WriteHistory(e)
      PROVE  OfFiles'
  <2>1. /\ history'.digest \in Contents
        /\ history'.commands \in Histories
        /\ Trail(history'.commands, history'.cursor, history'.digest, held)
    BY <1>6, JournalStep
  <2> QED
    BY <1>6, <2>1 DEF WriteHistory, OfFiles, ghosts
<1>7. ASSUME NEW e \in Editors, WritePack(e)
      PROVE  OfFiles'
  <2>1. pack' = AuthoredPart(editor[e].values)
    BY <1>7 DEF WritePack
  <2>2. Vouched(KindsOf(editor[e].values), editor[e].values, authored)
    BY KindsOfVouched
  <2>3. \A k \in DOMAIN pack' : <<k, pack'[k]>> \in authored
    BY <2>1, <2>2 DEF AuthoredPart, Vouched
  <2> QED
    BY <1>7, <2>3 DEF WritePack, OfFiles, ghosts
<1>8. ASSUME OutsideWrite
      PROVE  OfFiles'
  <2>1. userIni' \in Contents /\ Text(userIni') = userIni' /\ held' = held \union {userIni'}
    BY <1>8 DEF OutsideWrite, Text, EditAssumption
  <2>2. history # Missing =>
          Trail(history.commands, history.cursor, history.digest, held')
    BY <2>1, TrailStays DEF OfFiles
  <2>3. edits' \in 0..MaxEdits
    BY <1>0, <1>8 DEF OutsideWrite
  <2> QED
    BY <1>8, <2>1, <2>2, <2>3 DEF OutsideWrite, OfFiles, Files
<1> QED
  BY <1>1, <1>2, <1>3, <1>4, <1>5, <1>6, <1>7, <1>8 DEF Next, Step

-----------------------------------------------------------------------------
(***************************************************************************)
(* Snapshots: others copy the same text on top, and prune below it.        *)
(***************************************************************************)

\* A session that was not copying before, and changes neither user.ini nor the
\* snapshots, is not about to replace it afterwards.
LEMMA CopiedKept ==
  ASSUME Copied, OfSessions, NEW e \in Editors, NEW q, Become(e, q),
         alone' = alone, userIni' = userIni, snapshots' = snapshots,
         q.stage \in {"staging", "replacing"} => editor[e].stage \in {"staging", "replacing"}
  PROVE  Copied'
<1> SUFFICES ASSUME NEW o \in alone, editor'[o].stage \in {"staging", "replacing"},
                    userIni # Missing, Retention > 0
             PROVE  Len(snapshots) > 0 /\ snapshots[1] = userIni
  BY DEF Copied
<1>1. editor'[o] = IF o = e THEN q ELSE editor[o]
  BY DEF Become, OfSessions
<1> QED
  BY <1>1 DEF Copied

LEMMA CopiedStep ==
  ASSUME EditAssumption, OfFiles, OfSessions, Copied, Next
  PROVE  Copied'
<1>0. /\ snapshots \in Seq(Contents) /\ Len(snapshots) \in Nat
      /\ Retention \in Nat /\ Missing \notin Contents
      /\ alone \subseteq Editors /\ editor \in [Editors -> Records]
  BY DEF OfFiles, OfSessions, EditAssumption
<1>1. ASSUME NEW e \in Editors,
             Open(e) \/ Recall(e) \/ Edit(e) \/ Import(e) \/ Undo(e) \/ Redo(e)
               \/ Normalize(e) \/ PlanPack(e) \/ WritePack(e) \/ WriteHistory(e) \/ Stop(e)
      PROVE  Copied'
  <2>1. \E q : Become(e, q) /\ q.stage \notin {"staging", "replacing"}
    <3>1. CASE Open(e)
      BY <3>1 DEF Open
    <3>2. CASE Recall(e)
      BY <3>2 DEF Recall
    <3>3. CASE Edit(e) \/ Import(e)
      <4>1. \E values, kinds, commands, cursor : Decide(e, values, kinds, commands, cursor)
        BY <3>3 DEF Edit, Import, Execute
      <4> QED
        BY <4>1 DEF Decide
    <3>4. CASE Undo(e)
      BY <3>4 DEF Undo, Decide
    <3>5. CASE Redo(e)
      BY <3>5 DEF Redo, Decide
    <3>6. CASE Normalize(e)
      BY <3>6 DEF Normalize
    <3>7. CASE PlanPack(e)
      BY <3>7 DEF PlanPack
    <3>8. CASE WritePack(e) \/ WriteHistory(e) \/ Stop(e)
      BY <3>8 DEF WritePack, WriteHistory, Stop, Quit, Idle
    <3> QED
      BY <1>1, <3>1, <3>2, <3>3, <3>4, <3>5, <3>6, <3>7, <3>8
  <2>2. alone' = alone /\ userIni' = userIni /\ snapshots' = snapshots
    BY <1>1 DEF Open, Recall, Edit, Import, Execute, Undo, Redo, Normalize, PlanPack,
                WritePack, WriteHistory, Stop, ghosts, files
  <2> QED
    BY <2>1, <2>2, CopiedKept
<1>2. ASSUME NEW e \in Editors, Compare(e)
      PROVE  Copied'
  <2>1. editor[e].stage = "comparing" /\ editor[e] \in Records
    BY <1>0, <1>2 DEF Compare
  <2>2. \E q : Become(e, q) /\ q.stage \notin {"staging", "replacing"}
    <3>1. CASE Goto(e, "reading")
      <4>1. Become(e, [editor[e] EXCEPT !.stage = "reading"])
        BY <3>1 DEF Goto, Become
      <4>2. [editor[e] EXCEPT !.stage = "reading"].stage = "reading"
        BY <2>1, Moved DEF Saving, Records
      <4> QED
        BY <4>1, <4>2
    <3>2. CASE Quit(e)
      BY <3>2 DEF Quit, Idle
    <3> QED
      BY <1>2, <3>1, <3>2 DEF Compare
  <2> QED
    BY <1>2, <2>2, CopiedKept DEF Compare, ghosts, files
<1>3. ASSUME NEW e \in Editors, ReadCurrent(e)
      PROVE  Copied'
  <2>1. editor[e].next \in Contents
    BY <1>0, <1>3, Fields DEF ReadCurrent, Saving
  <2> SUFFICES ASSUME NEW o \in alone', editor'[o].stage \in {"staging", "replacing"},
                      userIni # Missing, Retention > 0
               PROVE  Len(snapshots) > 0 /\ snapshots[1] = userIni
    BY <1>3 DEF Copied, ReadCurrent, files
  <2>2. CASE o = e
    <3>1. Goto(e, "unchanged") \/ Goto(e, "copying")
      BY <1>3, <1>0, <2>1 DEF ReadCurrent
    <3>2. editor[e] \in Records /\ editor[e].stage \in Saving
      BY <1>0, <1>3 DEF ReadCurrent, Saving
    <3>3. editor'[e].stage \in {"unchanged", "copying"}
      BY <1>0, <3>1, <3>2, Moved DEF Goto, Saving
    <3> QED
      BY <2>2, <3>3
  <2>3. CASE o # e
    <3>1. o \in alone /\ editor'[o] = editor[o]
      BY <1>0, <1>3, <2>3 DEF ReadCurrent, Goto
    <3> QED
      BY <3>1 DEF Copied
  <2> QED
    BY <2>2, <2>3
<1>4. ASSUME NEW e \in Editors, Snapshot(e)
      PROVE  Copied'
  <2> SUFFICES ASSUME NEW o \in alone, userIni # Missing, Retention > 0
               PROVE  Len(snapshots') > 0 /\ snapshots'[1] = userIni
    BY <1>4 DEF Copied, Snapshot, ghosts
  <2>1. snapshots' = << userIni >> \o snapshots
    BY <1>0, <1>4 DEF Snapshot, Text
  <2>2. << userIni >> \in Seq(Contents) /\ Len(<< userIni >>) = 1 /\ << userIni >>[1] = userIni
    BY DEF OfFiles, Files
  <2>3. Len(snapshots') = 1 + Len(snapshots) /\ snapshots'[1] = userIni
    BY <1>0, <2>1, <2>2, ConcatProperties
  <2> QED
    BY <1>0, <2>3
<1>5. ASSUME NEW e \in Editors, StageOrigins(e)
      PROVE  Copied'
  <2>1. editor[e] \in Records /\ editor[e].stage \in Saving
    BY <1>0, <1>5 DEF StageOrigins, Saving
  <2>2. \E q : /\ Become(e, q)
               /\ q.stage \in {"staging", "replacing"} => editor[e].stage = "staging"
    <3>1. CASE editor[e].stage = "staging"
      BY <1>5, <3>1 DEF StageOrigins, Goto, Become
    <3>2. CASE editor[e].stage # "staging"
      <4>1. CASE Goto(e, "journaling")
        <5>1. Become(e, [editor[e] EXCEPT !.stage = "journaling"])
          BY <4>1 DEF Goto, Become
        <5>2. [editor[e] EXCEPT !.stage = "journaling"].stage = "journaling"
          BY <2>1, Fields DEF Records
        <5> QED
          BY <5>1, <5>2
      <4>2. CASE Quit(e)
        BY <4>2 DEF Quit, Idle
      <4> QED
        BY <1>5, <3>2, <4>1, <4>2 DEF StageOrigins
    <3> QED
      BY <3>1, <3>2
  <2> QED
    BY <1>5, <2>2, CopiedKept DEF StageOrigins, ghosts
<1>6. ASSUME NEW e \in Editors, Replace(e)
      PROVE  Copied'
  BY <1>6 DEF Replace, Copied
<1>7. ASSUME NEW e \in Editors, Prune(e)
      PROVE  Copied'
  <2>1. editor[e] \in Records /\ editor[e].stage = "pruning"
    BY <1>0, <1>7 DEF Prune
  <2>2. editor'[e].stage \notin {"staging", "replacing"}
    <3>1. CASE Goto(e, "journaling")
      BY <1>0, <2>1, <3>1 DEF Goto, Records
    <3>2. CASE Quit(e)
      BY <1>0, <3>2 DEF Quit, Become, Idle
    <3> QED
      BY <1>7, <3>1, <3>2 DEF Prune
  <2>3. \A o \in Editors \ {e} : editor'[o] = editor[o]
    BY <1>0, <1>7 DEF Prune, Goto, Quit, Become
  <2> SUFFICES ASSUME NEW o \in alone, editor'[o].stage \in {"staging", "replacing"},
                      userIni # Missing, Retention > 0
               PROVE  Len(snapshots') > 0 /\ snapshots'[1] = userIni
    BY <1>7 DEF Copied, Prune, ghosts
  <2>4. Len(snapshots) > 0 /\ snapshots[1] = userIni
    <3>1. o # e /\ o \in Editors
      BY <1>0, <2>2
    <3> QED
      BY <2>3, <3>1 DEF Copied
  <2>5. PICK kept \in 1..Len(snapshots) : snapshots' = SubSeq(snapshots, 1, kept)
    BY <1>0, <1>7, <2>4 DEF Prune
  <2>6. Len(snapshots') = kept /\ snapshots'[1] = snapshots[1]
    BY <1>0, <2>5, SubSeqProperties
  <2> QED
    BY <2>4, <2>6
<1>8. ASSUME OutsideWrite
      PROVE  Copied'
  BY <1>8 DEF OutsideWrite, Copied
<1> QED
  BY <1>1, <1>2, <1>3, <1>4, <1>5, <1>6, <1>7, <1>8 DEF Next, Step

-----------------------------------------------------------------------------
LEMMA InvInit ==
  ASSUME EditAssumption, Init
  PROVE  IInv
<1>1. Empty \in Contents
  BY DEF Empty, Contents
<1>2. OfFiles
  BY <1>1 DEF Init, OfFiles, Text, Files, EditAssumption
<1>3. OfSessions
  <2>1. Idle \in Records /\ Idle.stage = "idle"
    BY DEF Records, Idle
  <2>2. \A e \in Editors : editor[e] = Idle
    BY DEF Init
  <2> QED
    BY <2>1, <2>2 DEF Init, OfSessions, PastOf, AuthorOf, Saving
<1>4. Copied
  BY DEF Init, Copied
<1> QED
  BY <1>2, <1>3, <1>4 DEF IInv

LEMMA InvStep ==
  ASSUME EditAssumption, IInv, [Next]_vars
  PROVE  IInv'
<1>1. CASE Next
  BY <1>1, FilesStep, SessionsStep, CopiedStep DEF IInv
<1>2. CASE UNCHANGED vars
  <2>1. OfFiles'
    BY <1>2 DEF vars, files, ghosts, IInv, OfFiles
  <2>2. OfSessions'
    BY <1>2 DEF vars, ghosts, IInv, OfSessions
  <2>3. Copied'
    BY <1>2 DEF vars, files, ghosts, IInv, Copied
  <2> QED
    BY <2>1, <2>2, <2>3 DEF IInv
<1> QED
  BY <1>1, <1>2

\* Every file and every session has its type; a recorded cursor lies within its
\* commands, and authorship is recorded for exactly the keys that have a text.
THEOREM TypeCorrect ==
  ASSUME EditAssumption
  PROVE  Spec => []TypeOK
<1>1. Init => IInv
  BY InvInit
<1>2. IInv /\ [Next]_vars => IInv'
  BY InvStep
<1>3. IInv => TypeOK
  BY DEF IInv, OfFiles, TypeOK, Histories, Trail, Vouched, Filled
<1> QED
  BY <1>1, <1>2, <1>3, PTL DEF Spec

\* Whatever was interrupted, raced or written by another program: an undo that
\* is offered for the user.ini on disk, every earlier one and every redo behind
\* it lead to a content user.ini has held (EditSession._load_history).
THEOREM UndoLeadsToThePast ==
  ASSUME EditAssumption
  PROVE  Spec => []UndoReturnsToThePast
<1>1. Init => IInv
  BY InvInit
<1>2. IInv /\ [Next]_vars => IInv'
  BY InvStep
<1>3. ASSUME IInv
      PROVE  UndoReturnsToThePast
  <2> SUFFICES ASSUME HistoryFits(Text(userIni)), NEW n \in 0..Len(history.commands)
               PROVE  LET done == SubSeq(history.commands, 1, history.cursor)
                          base == Unwind(done, Text(userIni))
                      IN  Replay(SubSeq(history.commands, 1, n), base) \in held
    BY DEF UndoReturnsToThePast
  <2> DEFINE commands == history.commands
             cursor   == history.cursor
             content  == Text(userIni)
             done     == SubSeq(commands, 1, cursor)
             first    == SubSeq(commands, 1, n)
  <2>1. /\ commands \in Seq(Commands) /\ Len(commands) \in Nat
        /\ Trail(commands, cursor, content, held)
        /\ held \subseteq Contents
    BY <1>3 DEF IInv, OfFiles, HistoryFits, DigestFits, Histories
  <2> HIDE DEF commands, cursor, content
  <2>2. cursor \in 0..Len(commands) /\ n \in 0..Len(commands)
    BY <2>1 DEF Trail, commands
  <2>3. PICK t \in [0..Len(commands) -> held] :
          t[cursor] = content /\ Leads(t, commands)
    BY <2>1 DEF Trail
  <2>4. ASSUME NEW m \in 0..Len(commands)
        PROVE  LET u == [i \in 0..m |-> t[i]]
                   s == SubSeq(commands, 1, m)
               IN  /\ Len(s) = m
                   /\ u \in [0..Len(s) -> Contents]
                   /\ Leads(u, s)
    <3> DEFINE u == [i \in 0..m |-> t[i]]
               s == SubSeq(commands, 1, m)
    <3>1. Len(s) = m /\ \A i \in 1..m : s[i] = commands[i]
      <4>1. \A i \in 1..m : commands[i] \in Commands
        BY <2>1
      <4> QED
        BY <2>1, <4>1, SubSeqProperties
    <3> HIDE DEF s
    <3>2. u \in [0..m -> Contents]
      BY <2>1, <2>3
    <3>3. Leads(u, s)
      BY <2>1, <2>3, <3>1 DEF Leads
    <3> QED
      BY <3>1, <3>2, <3>3 DEF s
  <2>5. Unwind(done, content) = t[0]
    <3> DEFINE u == [i \in 0..cursor |-> t[i]]
    <3>1. Len(done) = cursor /\ u \in [0..Len(done) -> Contents] /\ Leads(u, done)
      BY <2>2, <2>4
    <3>2. u[cursor] = content /\ u[0] = t[0]
      BY <2>2, <2>3
    <3> HIDE DEF u, done
    <3> QED
      BY <2>2, <3>1, <3>2, UnwindFollows
  <2>6. Replay(first, t[0]) = t[n]
    <3> DEFINE u == [i \in 0..n |-> t[i]]
    <3>1. Len(first) = n /\ u \in [0..Len(first) -> Contents] /\ Leads(u, first)
      BY <2>2, <2>4
    <3>2. u[n] = t[n] /\ u[0] = t[0]
      BY <2>2, <2>3
    <3> HIDE DEF u, first
    <3> QED
      BY <2>2, <3>1, <3>2, ReplayFollows
  <2>7. t[n] \in held
    BY <2>2, <2>3
  <2> QED
    BY <2>5, <2>6, <2>7 DEF commands, cursor, content
<1> QED
  BY <1>1, <1>2, <1>3, PTL DEF Spec

\* A text is called authored only if somebody set that key to that text by
\* hand, and a written delta pack holds nothing else (load_origins and
\* write_delta_pack).
THEOREM OnlyTheAuthoredIsAuthored ==
  ASSUME EditAssumption
  PROVE  Spec => []AuthoredMeansAuthored
<1>1. Init => IInv
  BY InvInit
<1>2. IInv /\ [Next]_vars => IInv'
  BY InvStep
<1>3. ASSUME IInv
      PROVE  AuthoredMeansAuthored
  <2>1. Vouched(KindsOf(Text(userIni)), Text(userIni), authored)
    BY <1>3, KindsOfVouched DEF IInv
  <2>2. pack # Missing => \A k \in DOMAIN pack : <<k, pack[k]>> \in authored
    BY <1>3 DEF IInv, OfFiles
  <2> QED
    BY <2>1, <2>2 DEF AuthoredMeansAuthored, Vouched
<1> QED
  BY <1>1, <1>2, <1>3, PTL DEF Spec

\* A save during which nobody else writes user.ini has a snapshot of the text
\* that it replaces, whatever other saves copy and prune meanwhile
\* (UserEditStore.save).
THEOREM ReplacedIsCopied ==
  ASSUME EditAssumption
  PROVE  Spec => SnapshotBeforeReplace
<1> DEFINE Loses == \A e \in Editors :
                      /\ editor[e].stage = "replacing"
                      /\ editor'[e].stage = "pruning"
                      /\ e \in alone
                      /\ userIni # Missing
                      /\ Retention > 0
                      => userIni \in ToSet(snapshots)
<1>1. Init => IInv
  BY InvInit
<1>2. IInv /\ [Next]_vars => IInv'
  BY InvStep
<1>3. IInv => Loses
  <2> SUFFICES ASSUME IInv, NEW e \in alone, editor[e].stage = "replacing",
                      userIni # Missing, Retention > 0
               PROVE  userIni \in ToSet(snapshots)
    OBVIOUS
  <2>1. Len(snapshots) > 0 /\ snapshots[1] = userIni
    BY DEF IInv, Copied
  <2>2. snapshots \in Seq(Contents)
    BY DEF IInv, OfFiles
  <2> QED
    BY <2>1, <2>2 DEF ToSet
<1>4. [][Next]_vars /\ []IInv => [][Loses]_vars
  <2> HIDE DEF Loses
  <2> QED
    BY <1>3, PTL
<1> QED
  BY <1>1, <1>2, <1>4, PTL DEF Spec, SnapshotBeforeReplace
===========
