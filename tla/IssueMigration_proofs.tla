------------------------ MODULE IssueMigration_proofs ------------------------
(***************************************************************************)
(* What IssueMigration promises holds for every source, every number of    *)
(* comments, every attempt limit and every number of lost answers: no      *)
(* issue and no comment is duplicated without a lost answer, nor is the    *)
(* label where the page read of the target shows it                        *)
(* (CopiesAreLostAnswers), and what a finished row claims is there         *)
(* (ClaimsAreThere, ArchiveIsOnDisk).                                      *)
(* None of the three is inductive; they rest on three invariants.          *)
(*                                                                         *)
(*  Base     Types, and what is asked from where: a request on its way,    *)
(*           answered or not, names copies the target really has, and a    *)
(*           comment only a copy of its own issue.                         *)
(*  Counted  For the label, every issue and every comment, what is on the  *)
(*           target plus what still waits less what answers lost account   *)
(*           for is at most what was heard to be there; one less while the *)
(*           worker has it still to create.  A second object thus needs a  *)
(*           lost answer to the first.                                     *)
(*  Claimed  The bookkeeping of an attempt: what its maps, counters and    *)
(*           reports credit the target with is there, and a finished row   *)
(*           repeats such reports only.                                    *)
(*                                                                         *)
(* Requests that wait are a bag, so the counts need the first part: bags,  *)
(* what executing a request adds to the target, and the sums of both.      *)
(***************************************************************************)
EXTENDS IssueMigration, FiniteSetTheorems, SequenceTheorems, WellFoundedInduction, TLAPS

\* Copies of a request that is still on its way.
CountIn(B, r) == IF r \in DOMAIN B THEN B[r] ELSE 0

\* Adding one copy of a request.
LEMMA BagAdds ==
  ASSUME NEW B, B \in [DOMAIN B -> Nat \ {0}], NEW r, NEW C, C = B (+) SetToBag({r})
  PROVE  /\ C \in [DOMAIN C -> Nat \ {0}] /\ DOMAIN C = DOMAIN B \cup {r}
         /\ \A q : CountIn(C, q) = CountIn(B, q) + (IF q = r THEN 1 ELSE 0)
BY DEF CountIn, (+), SetToBag

\* Taking one copy of a request away.
LEMMA BagRemoves ==
  ASSUME NEW B, B \in [DOMAIN B -> Nat \ {0}], NEW r \in DOMAIN B, NEW C, C = B (-) SetToBag({r})
  PROVE  /\ C \in [DOMAIN C -> Nat \ {0}] /\ DOMAIN C \subseteq DOMAIN B
         /\ \A q : CountIn(C, q) = CountIn(B, q) - (IF q = r THEN 1 ELSE 0)
BY DEF CountIn, (-), SetToBag

\* A finite non-empty set of numbers has a largest one: the next number is free.
LEMMA MaxExists ==
  ASSUME NEW n \in Nat, NEW S \in SUBSET (1 .. n), S # {}
  PROVE  Max(S) \in S
<1>. DEFINE U == 1 .. n
            Above(x) == x .. n
            T == {Above(x) : x \in S}
<1>1. IsFiniteSet(U)
  BY FS_Interval
<1>2. T \subseteq FiniteSubsetsOf(U)
  BY <1>1, FS_FiniteSubsetsOfFinite
<1>3. IsWellFoundedOn(StrictSubsetOrdering(U), FiniteSubsetsOf(U))
  BY FS_StrictSubsetOrderingWellFounded
<1>4. PICK A \in T : \A B \in T : <<B, A>> \notin StrictSubsetOrdering(U)
  <2>. HIDE DEF T
  <2>1. T # {}
    BY DEF T
  <2>. QED BY <1>2, <1>3, <2>1, WFMin
<1>5. PICK x \in S : A = Above(x)
  OBVIOUS
<1>6. \A y \in S : x >= y
  <2>. SUFFICES ASSUME NEW y \in S, x < y PROVE FALSE
    OBVIOUS
  <2>1. Above(y) \subseteq Above(x) /\ x \in Above(x) /\ x \notin Above(y)
    OBVIOUS
  <2>2. <<Above(y), Above(x)>> \in StrictSubsetOrdering(U)
    BY <2>1 DEF StrictSubsetOrdering
  <2>. QED BY <1>4, <1>5, <2>2
<1>. QED BY <1>6 DEF Max

-----------------------------------------------------------------------------
IssueRow == [src : Issues, comments : Seq(Nat), open : BOOLEAN]
TargetRow == [issues : Seq(IssueRow), labels : Nat, described : BOOLEAN]

TargetOK ==
    /\ target \in TargetRow
    /\ \A n \in DOMAIN target.issues : \A i \in DOMAIN target.issues[n].comments :
          target.issues[n].comments[i] \in 1 .. Source[target.issues[n].src].comments
    /\ lost \in [Objects -> Nat]

\* The types of the source: its issues, their comments and their states.
LEMMA SourceType ==
  /\ Issues = 1 .. Len(Source) /\ Len(Source) \in Nat
  /\ \A s \in Issues : Source[s].comments \in Nat
<1>. DEFINE R == [comments : Nat, closed : BOOLEAN, label : BOOLEAN]
<1>1. Source \in Seq(R)
  BY SourceAssumption
<1>2. Issues = 1 .. Len(Source) /\ Len(Source) \in Nat /\ \A s \in Issues : Source[s] \in R
  <2>. HIDE DEF R
  <2>. QED BY <1>1, LenProperties, ElementOfSeq DEF Issues
<1>. QED BY <1>2

\* What the target does with each kind of request.
LEMMA ExecuteIs ==
  /\ \A s : Execute(IssueRequest(s)) =
       [target EXCEPT !.issues = Append(@, [src |-> s, comments |-> <<>>, open |-> TRUE])]
  /\ \A s, n, k : Execute(CommentRequest(s, n, k)) =
       [target EXCEPT !.issues[n].comments = Append(@, k)]
  /\ \A s, n : Execute(CloseRequest(s, n)) = [target EXCEPT !.issues[n].open = FALSE]
  /\ Execute(LabelRequest) = [target EXCEPT !.labels = @ + 1]
  /\ Execute(MetadataRequest) = [target EXCEPT !.described = TRUE]
BY DEF Execute, IssueRequest, CommentRequest, CloseRequest, LabelRequest, MetadataRequest

\* Which counter a lost answer is charged to.
LEMMA LostOneIs ==
  /\ \A s : LostOne(IssueRequest(s)) = [lost EXCEPT ![<<s, 0>>] = @ + 1]
  /\ \A s, n, k : LostOne(CommentRequest(s, n, k)) = [lost EXCEPT ![<<s, k>>] = @ + 1]
  /\ \A s, n : LostOne(CloseRequest(s, n)) = lost
  /\ LostOne(LabelRequest) = [lost EXCEPT ![<<0, 0>>] = @ + 1]
  /\ LostOne(MetadataRequest) = lost
BY DEF LostOne, Object, IssueRequest, CommentRequest, CloseRequest, LabelRequest, MetadataRequest

\* Requests are told apart by what they ask for.
LEMMA RequestsDiffer ==
  /\ \A s, t : IssueRequest(s) = IssueRequest(t) => s = t
  /\ \A s, t, m, n, j, k : CommentRequest(s, m, j) = CommentRequest(t, n, k) => s = t /\ m = n /\ j = k
  /\ \A s, t, n, k :
       /\ IssueRequest(s) # CommentRequest(t, n, k) /\ IssueRequest(s) # CloseRequest(t, n)
       /\ CommentRequest(s, n, k) # CloseRequest(t, n)
       /\ LabelRequest # IssueRequest(s) /\ LabelRequest # CommentRequest(s, n, k)
       /\ LabelRequest # CloseRequest(s, n) /\ LabelRequest # MetadataRequest
       /\ MetadataRequest # IssueRequest(s) /\ MetadataRequest # CommentRequest(s, n, k)
       /\ MetadataRequest # CloseRequest(s, n)
  /\ \A s, t, m, n, k : CommentRequest(s, n, k) # CloseRequest(t, m)
<1>1. \A s, t : IssueRequest(s) = IssueRequest(t) => s = t
  BY DEF IssueRequest
<1>2. \A s, t, m, n, j, k :
        CommentRequest(s, m, j) = CommentRequest(t, n, k) => s = t /\ m = n /\ j = k
  BY DEF CommentRequest
<1>3. /\ \A s : IssueRequest(s).kind = "issue"
      /\ \A s, n, k : CommentRequest(s, n, k).kind = "comment"
      /\ \A s, n : CloseRequest(s, n).kind = "close"
      /\ LabelRequest.kind = "label" /\ MetadataRequest.kind = "metadata"
  BY DEF IssueRequest, CommentRequest, CloseRequest, LabelRequest, MetadataRequest
<1>. QED BY <1>1, <1>2, <1>3

\* Every request in flight is one of five kinds.
LEMMA RequestKinds ==
  ASSUME NEW r \in Requests
  PROVE  \/ \E s \in Issues : r = IssueRequest(s)
         \/ \E s \in Issues, k \in Nat \ {0} : \E n \in NumbersOf(s) :
              k \in 1 .. Source[s].comments /\ r = CommentRequest(s, n, k)
         \/ \E s \in Issues : \E n \in NumbersOf(s) : r = CloseRequest(s, n)
         \/ r = LabelRequest \/ r = MetadataRequest
<1>. DEFINE Sent(s) == {CommentRequest(s, n, k) : n \in NumbersOf(s), k \in 1 .. Source[s].comments}
            Closed(s) == {CloseRequest(s, n) : n \in NumbersOf(s)}
<1>1. \/ r \in {IssueRequest(s) : s \in Issues} \/ r \in {LabelRequest, MetadataRequest}
      \/ r \in UNION {Sent(s) : s \in Issues} \/ r \in UNION {Closed(s) : s \in Issues}
  BY DEF Requests
<1>2. ASSUME NEW s \in Issues, r \in Sent(s)
      PROVE  \E k \in Nat \ {0} : \E n \in NumbersOf(s) :
               k \in 1 .. Source[s].comments /\ r = CommentRequest(s, n, k)
  <2>1. PICK n \in NumbersOf(s), k \in 1 .. Source[s].comments : r = CommentRequest(s, n, k)
    BY <1>2
  <2>2. k \in Nat \ {0}
    BY SourceType
  <2>. QED BY <2>1, <2>2
<1>3. ASSUME NEW s \in Issues, r \in Closed(s)
      PROVE  \E n \in NumbersOf(s) : r = CloseRequest(s, n)
  BY <1>3
<1>. HIDE DEF Sent, Closed
<1>. QED BY <1>1, <1>2, <1>3

\* A created issue takes the next number.
LEMMA IssueExecuted ==
  ASSUME TargetOK, NEW s \in Issues, target' = Execute(IssueRequest(s))
  PROVE  /\ target' \in TargetRow
         /\ Len(target'.issues) = Len(target.issues) + 1 /\ Len(target.issues) \in Nat
         /\ \A n \in DOMAIN target.issues : target'.issues[n] = target.issues[n]
         /\ target'.issues[Len(target.issues) + 1] = [src |-> s, comments |-> <<>>, open |-> TRUE]
         /\ target'.labels = target.labels /\ target'.described = target.described
<1>. DEFINE row == [src |-> s, comments |-> <<>>, open |-> TRUE]
<1>1. target' = [target EXCEPT !.issues = Append(target.issues, row)]
  BY ExecuteIs
<1>2. row \in IssueRow
  BY EmptySeq DEF IssueRow
<1>3. target.issues \in Seq(IssueRow)
  BY DEF TargetOK, TargetRow
<1>. HIDE DEF row
<1>4. /\ Append(target.issues, row) \in Seq(IssueRow)
      /\ Len(Append(target.issues, row)) = Len(target.issues) + 1
      /\ Append(target.issues, row)[Len(target.issues) + 1] = row
      /\ \A n \in 1 .. Len(target.issues) : Append(target.issues, row)[n] = target.issues[n]
  BY <1>2, <1>3, AppendProperties
<1>5. Len(target.issues) \in Nat /\ DOMAIN target.issues = 1 .. Len(target.issues)
  BY <1>3, LenProperties
<1>6. /\ target'.issues = Append(target.issues, row) /\ target' \in TargetRow
      /\ target'.labels = target.labels /\ target'.described = target.described
  BY <1>1, <1>4 DEF TargetOK, TargetRow
<1>. QED BY <1>4, <1>5, <1>6 DEF row

\* Replacing the row of one issue leaves the rest of the target alone.
LEMMA RowReplaced ==
  ASSUME TargetOK, NEW n \in DOMAIN target.issues, NEW row \in IssueRow,
         target' = [target EXCEPT !.issues = [target.issues EXCEPT ![n] = row]]
  PROVE  /\ target' \in TargetRow
         /\ Len(target'.issues) = Len(target.issues)
         /\ target'.issues[n] = row
         /\ \A m \in DOMAIN target.issues : m # n => target'.issues[m] = target.issues[m]
         /\ target'.labels = target.labels /\ target'.described = target.described
<1>. DEFINE new == [target.issues EXCEPT ![n] = row]
<1>1. target.issues \in Seq(IssueRow) /\ DOMAIN target.issues = 1 .. Len(target.issues)
  BY LenProperties DEF TargetOK, TargetRow
<1>2. /\ new \in Seq(IssueRow) /\ Len(new) = Len(target.issues)
      /\ \A m \in 1 .. Len(target.issues) : new[m] = IF m = n THEN row ELSE target.issues[m]
  BY <1>1, ExceptSeq
<1>3. target' = [target EXCEPT !.issues = new]
  OBVIOUS
<1>. HIDE DEF new
<1>4. /\ target'.issues = new /\ target' \in TargetRow
      /\ target'.labels = target.labels /\ target'.described = target.described
  BY <1>2, <1>3 DEF TargetOK, TargetRow
<1>. QED BY <1>1, <1>2, <1>4

\* A posted comment goes to the end of its issue.
LEMMA CommentExecuted ==
  ASSUME TargetOK, NEW s, NEW n \in DOMAIN target.issues, NEW k \in Nat,
         target' = Execute(CommentRequest(s, n, k))
  PROVE  /\ target' \in TargetRow
         /\ Len(target'.issues) = Len(target.issues)
         /\ \A m \in DOMAIN target.issues : m # n => target'.issues[m] = target.issues[m]
         /\ target'.issues[n].src = target.issues[n].src
         /\ target'.issues[n].comments = Append(target.issues[n].comments, k)
         /\ target'.labels = target.labels /\ target'.described = target.described
<1>. DEFINE row == [target.issues[n] EXCEPT !.comments = Append(target.issues[n].comments, k)]
<1>1. target' = [target EXCEPT !.issues = [target.issues EXCEPT ![n] = row]]
  BY ExecuteIs
<1>2. target.issues \in Seq(IssueRow) /\ target.issues[n] \in IssueRow
  BY DEF TargetOK, TargetRow
<1>3. Append(target.issues[n].comments, k) \in Seq(Nat)
  BY <1>2, AppendProperties DEF IssueRow
<1>4. /\ row \in IssueRow
      /\ row.src = target.issues[n].src /\ row.comments = Append(target.issues[n].comments, k)
  BY <1>2, <1>3 DEF IssueRow
<1>. HIDE DEF row
<1>. QED BY <1>1, <1>2, <1>4, RowReplaced

\* The other requests touch neither the issues' identity nor their comments.
LEMMA OtherExecuted ==
  ASSUME TargetOK, NEW r,
         \/ \E s, n : n \in DOMAIN target.issues /\ r = CloseRequest(s, n)
         \/ r = LabelRequest \/ r = MetadataRequest,
         target' = Execute(r)
  PROVE  /\ target' \in TargetRow
         /\ Len(target'.issues) = Len(target.issues)
         /\ \A n \in DOMAIN target.issues :
              /\ target'.issues[n].src = target.issues[n].src
              /\ target'.issues[n].comments = target.issues[n].comments
         /\ target'.labels = target.labels + (IF r = LabelRequest THEN 1 ELSE 0)
         /\ target.described => target'.described
         /\ r = MetadataRequest => target'.described
<1>. target.labels \in Nat
  BY DEF TargetOK, TargetRow
<1>1. ASSUME NEW s, NEW n \in DOMAIN target.issues, r = CloseRequest(s, n)
      PROVE  /\ target' \in TargetRow
             /\ Len(target'.issues) = Len(target.issues)
             /\ \A m \in DOMAIN target.issues :
                  /\ target'.issues[m].src = target.issues[m].src
                  /\ target'.issues[m].comments = target.issues[m].comments
             /\ target'.labels = target.labels /\ target'.described = target.described
  <2>. DEFINE row == [target.issues[n] EXCEPT !.open = FALSE]
  <2>1. target' = [target EXCEPT !.issues = [target.issues EXCEPT ![n] = row]]
    BY <1>1, ExecuteIs
  <2>2. target.issues \in Seq(IssueRow) /\ target.issues[n] \in IssueRow
    BY DEF TargetOK, TargetRow
  <2>3. row \in IssueRow /\ row.src = target.issues[n].src /\ row.comments = target.issues[n].comments
    BY <2>2 DEF IssueRow
  <2>. HIDE DEF row
  <2>4. /\ target' \in TargetRow /\ Len(target'.issues) = Len(target.issues)
        /\ target'.labels = target.labels /\ target'.described = target.described
        /\ target'.issues[n] = row
        /\ \A m \in DOMAIN target.issues : m # n => target'.issues[m] = target.issues[m]
    BY <2>1, <2>2, <2>3, RowReplaced
  <2>. QED BY <2>3, <2>4
<1>2. CASE r = LabelRequest
  <2>1. target' = [target EXCEPT !.labels = @ + 1]
    BY <1>2, ExecuteIs
  <2>2. /\ target' \in TargetRow /\ target'.issues = target.issues
        /\ target'.labels = target.labels + 1 /\ target'.described = target.described
    BY <2>1 DEF TargetOK, TargetRow
  <2>3. r # MetadataRequest
    BY <1>2, RequestsDiffer
  <2>. QED BY <1>2, <2>2, <2>3
<1>3. CASE r = MetadataRequest
  <2>1. target' = [target EXCEPT !.described = TRUE]
    BY <1>3, ExecuteIs
  <2>2. /\ target' \in TargetRow /\ target'.issues = target.issues
        /\ target'.labels = target.labels /\ target'.described = TRUE
    BY <2>1 DEF TargetOK, TargetRow
  <2>. QED BY <1>3, <2>2, RequestsDiffer
<1>4. ASSUME NEW s, NEW n, r = CloseRequest(s, n) PROVE r # LabelRequest /\ r # MetadataRequest
  BY <1>4, RequestsDiffer
<1>. QED BY <1>1, <1>2, <1>3, <1>4

\* Where on issue number n comment k stands.
PlacedAt(n, k) ==
    {i \in DOMAIN target.issues[n].comments : target.issues[n].comments[i] = k}

\* What executing a request adds to the target; nothing is ever taken away.
LEMMA ExecuteAdds ==
  ASSUME TargetOK, NEW r \in Requests, target' = Execute(r)
  PROVE  /\ target' \in TargetRow
         /\ \A n \in DOMAIN target'.issues : \A i \in DOMAIN target'.issues[n].comments :
              target'.issues[n].comments[i] \in 1 .. Source[target'.issues[n].src].comments
         /\ Len(target.issues) \in Nat /\ Len(target'.issues) \in Nat
         /\ Len(target.issues) <= Len(target'.issues)
         /\ \A q : Len(target.issues) + 1 \notin NumbersOf(q)
         /\ \A q : NumbersOf(q)' = NumbersOf(q) \cup
              (IF r = IssueRequest(q) THEN {Len(target.issues) + 1} ELSE {})
         /\ \A q, k : \A n \in NumbersOf(q) :
              /\ Len(target.issues[n].comments) + 1 \notin PlacedAt(n, k)
              /\ Len(target.issues[n].comments) \in Nat
              /\ PlacedAt(n, k)' = PlacedAt(n, k) \cup
                   (IF r = CommentRequest(q, n, k) THEN {Len(target.issues[n].comments) + 1} ELSE {})
         /\ \A k : \A n \in DOMAIN target'.issues \ DOMAIN target.issues : PlacedAt(n, k)' = {}
         /\ target'.labels = target.labels + (IF r = LabelRequest THEN 1 ELSE 0)
         /\ target.described => target'.described
         /\ r = MetadataRequest => target'.described
<1>1. PICK l \in Nat : /\ l = Len(target.issues) /\ DOMAIN target.issues = 1 .. l
                       /\ target.issues \in Seq(IssueRow) /\ target.labels \in Nat
  BY LenProperties DEF TargetOK, TargetRow
<1>2. \A n \in 1 .. l : /\ target.issues[n].comments \in Seq(Nat)
                        /\ Len(target.issues[n].comments) \in Nat
                        /\ DOMAIN target.issues[n].comments = 1 .. Len(target.issues[n].comments)
  <2>1. ASSUME NEW n \in 1 .. l PROVE target.issues[n].comments \in Seq(Nat)
    <3>1. target.issues[n] \in IssueRow
      BY <1>1, ElementOfSeq
    <3>. QED BY <3>1 DEF IssueRow
  <2>. QED BY <2>1, LenProperties
<1>3. \A q : NumbersOf(q) \subseteq 1 .. l /\ l + 1 \notin NumbersOf(q)
  BY <1>1 DEF NumbersOf
<1>4. \A k : \A n \in 1 .. l : Len(target.issues[n].comments) + 1 \notin PlacedAt(n, k)
  BY <1>2 DEF PlacedAt
<1>5. target' \in TargetRow => Len(target'.issues) \in Nat /\ DOMAIN target'.issues = 1 .. Len(target'.issues)
  BY LenProperties DEF TargetRow
<1>6. CASE \E s \in Issues : r = IssueRequest(s)
  <2>1. PICK s \in Issues : r = IssueRequest(s)
    BY <1>6
  <2>2. /\ target' \in TargetRow /\ Len(target'.issues) = l + 1
        /\ \A n \in 1 .. l : target'.issues[n] = target.issues[n]
        /\ target'.issues[l + 1] = [src |-> s, comments |-> <<>>, open |-> TRUE]
        /\ target'.labels = target.labels /\ target'.described = target.described
    BY <1>1, <2>1, IssueExecuted
  <2>3. DOMAIN target'.issues = 1 .. l + 1
    BY <1>5, <2>2
  <2>4. /\ \A q : r = IssueRequest(q) <=> q = s
        /\ \A q, n, k : r # CommentRequest(q, n, k)
        /\ r # LabelRequest /\ r # MetadataRequest
    BY <2>1, RequestsDiffer
  <2>5. \A q : NumbersOf(q)' = NumbersOf(q) \cup (IF q = s THEN {l + 1} ELSE {})
    BY <1>1, <2>2, <2>3 DEF NumbersOf
  <2>6. \A k : \A n \in 1 .. l : PlacedAt(n, k)' = PlacedAt(n, k)
    BY <2>2 DEF PlacedAt
  <2>7. DOMAIN target'.issues[l + 1].comments = {} /\ \A k : PlacedAt(l + 1, k)' = {}
    <3>1. target'.issues[l + 1].comments = <<>>
      BY <2>2
    <3>2. DOMAIN target'.issues[l + 1].comments = {}
      BY <3>1
    <3>. QED BY <3>2 DEF PlacedAt
  <2>8. \A n \in DOMAIN target'.issues : \A i \in DOMAIN target'.issues[n].comments :
          target'.issues[n].comments[i] \in 1 .. Source[target'.issues[n].src].comments
    BY <1>1, <2>2, <2>3, <2>7 DEF TargetOK
  <2>9. \A q, k : \A n \in NumbersOf(q) :
          /\ Len(target.issues[n].comments) + 1 \notin PlacedAt(n, k)
          /\ Len(target.issues[n].comments) \in Nat
          /\ PlacedAt(n, k)' = PlacedAt(n, k) \cup
               (IF r = CommentRequest(q, n, k) THEN {Len(target.issues[n].comments) + 1} ELSE {})
    BY <1>2, <1>3, <1>4, <2>4, <2>6
  <2>10. \A k : \A n \in DOMAIN target'.issues \ DOMAIN target.issues : PlacedAt(n, k)' = {}
    BY <1>1, <2>3, <2>7
  <2>11. /\ \A q : NumbersOf(q)' = NumbersOf(q) \cup
                 (IF r = IssueRequest(q) THEN {Len(target.issues) + 1} ELSE {})
         /\ \A q : Len(target.issues) + 1 \notin NumbersOf(q)
    BY <1>1, <1>3, <2>4, <2>5
  <2>12. /\ Len(target.issues) \in Nat /\ Len(target'.issues) \in Nat
         /\ Len(target.issues) <= Len(target'.issues)
         /\ target'.labels = target.labels + (IF r = LabelRequest THEN 1 ELSE 0)
         /\ target.described => target'.described
         /\ r = MetadataRequest => target'.described
    BY <1>1, <2>2, <2>4
  <2>. QED BY <2>2, <2>8, <2>9, <2>10, <2>11, <2>12
<1>7. CASE \E s \in Issues, k \in Nat \ {0} : \E n \in NumbersOf(s) :
             k \in 1 .. Source[s].comments /\ r = CommentRequest(s, n, k)
  <2>1. PICK s \in Issues, k \in Nat \ {0} : \E n \in NumbersOf(s) :
               k \in 1 .. Source[s].comments /\ r = CommentRequest(s, n, k)
    BY <1>7
  <2>2. PICK n \in NumbersOf(s) : k \in 1 .. Source[s].comments /\ r = CommentRequest(s, n, k)
    BY <2>1
  <2>3. n \in 1 .. l /\ n \in DOMAIN target.issues /\ target.issues[n].src = s /\ k \in Nat
    BY <1>1 DEF NumbersOf
  <2>4. /\ target' \in TargetRow /\ Len(target'.issues) = l
        /\ \A m \in 1 .. l : m # n => target'.issues[m] = target.issues[m]
        /\ target'.issues[n].src = target.issues[n].src
        /\ target'.issues[n].comments = Append(target.issues[n].comments, k)
        /\ target'.labels = target.labels /\ target'.described = target.described
    <3>1. target' = Execute(CommentRequest(s, n, k))
      BY <2>2
    <3>. QED BY <1>1, <2>3, <3>1, CommentExecuted
  <2>5. DOMAIN target'.issues = 1 .. l
    BY <1>5, <2>4
  <2>6. /\ \A q : r # IssueRequest(q)
        /\ \A q, m, j : r = CommentRequest(q, m, j) <=> q = s /\ m = n /\ j = k
        /\ r # LabelRequest /\ r # MetadataRequest
    BY <2>2, RequestsDiffer
  <2>7. \A q : NumbersOf(q)' = NumbersOf(q)
    BY <1>1, <2>3, <2>4, <2>5 DEF NumbersOf
  <2>8. /\ DOMAIN target'.issues[n].comments = 1 .. Len(target.issues[n].comments) + 1
        /\ \A i \in 1 .. Len(target.issues[n].comments) :
             target'.issues[n].comments[i] = target.issues[n].comments[i]
        /\ target'.issues[n].comments[Len(target.issues[n].comments) + 1] = k
    BY <1>2, <2>3, <2>4, AppendProperties, LenProperties
  <2>9. \A j : PlacedAt(n, j)' = PlacedAt(n, j) \cup
          (IF j = k THEN {Len(target.issues[n].comments) + 1} ELSE {})
    <3>. DEFINE c == Len(target.issues[n].comments)
    <3>1. c \in Nat /\ DOMAIN target.issues[n].comments = 1 .. c
      BY <1>2, <2>3
    <3>2. ASSUME NEW j, NEW i
          PROVE  i \in PlacedAt(n, j)' <=> i \in PlacedAt(n, j) \/ (j = k /\ i = c + 1)
      <4>1. /\ DOMAIN target'.issues[n].comments = 1 .. c + 1
            /\ \A m \in 1 .. c : target'.issues[n].comments[m] = target.issues[n].comments[m]
            /\ target'.issues[n].comments[c + 1] = k
        BY <2>8
      <4>. HIDE DEF c
      <4>2. c + 1 \notin 1 .. c /\ 1 .. c + 1 = (1 .. c) \cup {c + 1}
        BY <3>1
      <4>. QED BY <3>1, <4>1, <4>2 DEF PlacedAt
    <3>. QED BY <3>2
  <2>10. \A j : \A m \in 1 .. l : m # n => PlacedAt(m, j)' = PlacedAt(m, j)
    BY <2>4 DEF PlacedAt
  <2>11. \A m \in DOMAIN target'.issues : \A i \in DOMAIN target'.issues[m].comments :
          target'.issues[m].comments[i] \in 1 .. Source[target'.issues[m].src].comments
    <3>1. ASSUME NEW m \in 1 .. l, m # n, NEW i \in DOMAIN target'.issues[m].comments
          PROVE  target'.issues[m].comments[i] \in 1 .. Source[target'.issues[m].src].comments
      BY <1>1, <2>4, <3>1 DEF TargetOK
    <3>2. ASSUME NEW i \in DOMAIN target'.issues[n].comments
          PROVE  target'.issues[n].comments[i] \in 1 .. Source[target'.issues[n].src].comments
      <4>. DEFINE c == Len(target.issues[n].comments)
      <4>1. c \in Nat /\ DOMAIN target.issues[n].comments = 1 .. c
        BY <1>2, <2>3
      <4>2. CASE i = c + 1
        BY <2>2, <2>3, <2>4, <2>8, <4>2
      <4>3. CASE i \in 1 .. c
        BY <2>3, <2>4, <2>8, <4>1, <4>3 DEF TargetOK
      <4>4. i \in 1 .. c + 1
        BY <2>8
      <4>. HIDE DEF c
      <4>. QED BY <4>1, <4>2, <4>3, <4>4
    <3>. QED BY <2>5, <3>1, <3>2
  <2>12. \A q, j : \A m \in NumbersOf(q) :
           /\ m = n => q = s
           /\ PlacedAt(m, j)' = PlacedAt(m, j) \cup
                (IF r = CommentRequest(q, m, j) THEN {Len(target.issues[m].comments) + 1} ELSE {})
    <3>1. \A q : \A m \in NumbersOf(q) : m = n => q = s
      BY <2>3 DEF NumbersOf
    <3>. QED BY <1>3, <2>6, <2>9, <2>10, <3>1
  <2>13. \A q, j : \A m \in NumbersOf(q) :
          /\ Len(target.issues[m].comments) + 1 \notin PlacedAt(m, j)
          /\ Len(target.issues[m].comments) \in Nat
    BY <1>2, <1>3, <1>4
  <2>14. DOMAIN target'.issues \ DOMAIN target.issues = {}
    BY <1>1, <2>5
  <2>15. /\ \A q : NumbersOf(q)' = NumbersOf(q) \cup
                 (IF r = IssueRequest(q) THEN {Len(target.issues) + 1} ELSE {})
         /\ \A q : Len(target.issues) + 1 \notin NumbersOf(q)
    BY <1>1, <1>3, <2>6, <2>7
  <2>16. /\ Len(target.issues) \in Nat /\ Len(target'.issues) \in Nat
         /\ Len(target.issues) <= Len(target'.issues)
         /\ target'.labels = target.labels + (IF r = LabelRequest THEN 1 ELSE 0)
         /\ target.described => target'.described
         /\ r = MetadataRequest => target'.described
    BY <1>1, <2>4, <2>6
  <2>. QED BY <2>4, <2>11, <2>12, <2>13, <2>14, <2>15, <2>16
<1>8. CASE \/ \E s \in Issues : \E n \in NumbersOf(s) : r = CloseRequest(s, n)
           \/ r = LabelRequest \/ r = MetadataRequest
  <2>1. \/ \E s, n : n \in DOMAIN target.issues /\ r = CloseRequest(s, n)
        \/ r = LabelRequest \/ r = MetadataRequest
    BY <1>8 DEF NumbersOf
  <2>2. /\ target' \in TargetRow /\ Len(target'.issues) = l
        /\ \A n \in 1 .. l : /\ target'.issues[n].src = target.issues[n].src
                             /\ target'.issues[n].comments = target.issues[n].comments
        /\ target'.labels = target.labels + (IF r = LabelRequest THEN 1 ELSE 0)
        /\ target.described => target'.described
        /\ r = MetadataRequest => target'.described
    BY <1>1, <2>1, OtherExecuted
  <2>3. DOMAIN target'.issues = 1 .. l
    BY <1>5, <2>2
  <2>4. (\A q : r # IssueRequest(q)) /\ (\A q, m, j : r # CommentRequest(q, m, j))
    BY <1>8, RequestsDiffer
  <2>5. \A q : NumbersOf(q)' = NumbersOf(q)
    BY <1>1, <2>2, <2>3 DEF NumbersOf
  <2>6. \A j : \A m \in 1 .. l : PlacedAt(m, j)' = PlacedAt(m, j)
    BY <2>2 DEF PlacedAt
  <2>7. \A n \in DOMAIN target'.issues : \A i \in DOMAIN target'.issues[n].comments :
          target'.issues[n].comments[i] \in 1 .. Source[target'.issues[n].src].comments
    BY <1>1, <2>2, <2>3 DEF TargetOK
  <2>8. \A q, k : \A n \in NumbersOf(q) :
          /\ Len(target.issues[n].comments) + 1 \notin PlacedAt(n, k)
          /\ Len(target.issues[n].comments) \in Nat
          /\ PlacedAt(n, k)' = PlacedAt(n, k) \cup
               (IF r = CommentRequest(q, n, k) THEN {Len(target.issues[n].comments) + 1} ELSE {})
    BY <1>2, <1>3, <1>4, <2>4, <2>6
  <2>9. DOMAIN target'.issues \ DOMAIN target.issues = {}
    BY <1>1, <2>3
  <2>10. /\ \A q : NumbersOf(q)' = NumbersOf(q) \cup
                 (IF r = IssueRequest(q) THEN {Len(target.issues) + 1} ELSE {})
         /\ \A q : Len(target.issues) + 1 \notin NumbersOf(q)
    BY <1>1, <1>3, <2>4, <2>5
  <2>11. /\ Len(target.issues) \in Nat /\ Len(target'.issues) \in Nat
         /\ Len(target.issues) <= Len(target'.issues)
    BY <1>1, <2>2
  <2>. QED BY <2>2, <2>7, <2>8, <2>9, <2>10, <2>11
<1>. QED BY <1>6, <1>7, <1>8, RequestKinds
-----------------------------------------------------------------------------
(***************************************************************************)
(* How the target, the requests still under way and the ledger of lost     *)
(* answers move together.                                                  *)
(***************************************************************************)

Waiting(r) == CountIn(late, r)

NetOK ==
    /\ call \in [req : Requests, tried : 0 .. MaxAttempts - 1] \cup {NONE}
    /\ late \in [DOMAIN late -> Nat \ {0}] /\ DOMAIN late \subseteq Requests
    /\ losses \in 0 .. MaxLost

Quiet      == UNCHANGED <<target, late, lost>>
Served(r)  == target' = Execute(r) /\ UNCHANGED <<late, lost>>
Unheard(r) == target' = Execute(r) /\ lost' = LostOne(r) /\ UNCHANGED late
Delayed(r) == late' = late (+) SetToBag({r}) /\ lost' = LostOne(r) /\ UNCHANGED target
Arrived(r) == /\ r \in DOMAIN late /\ late' = late (-) SetToBag({r})
              /\ target' = Execute(r) /\ UNCHANGED lost

\* Nothing known of the target changes when the target does not.
LEMMA TargetStays ==
  ASSUME target' = target
  PROVE  /\ \A s : NumbersOf(s)' = NumbersOf(s)
         /\ \A n, k : PlacedAt(n, k)' = PlacedAt(n, k)
         /\ Requests' = Requests
<1>1. \A s : NumbersOf(s)' = NumbersOf(s)
  BY DEF NumbersOf
<1>2. \A n, k : PlacedAt(n, k)' = PlacedAt(n, k)
  BY DEF PlacedAt
<1>3. Requests' = Requests
  BY <1>1 DEF Requests
<1>. QED BY <1>1, <1>2, <1>3

\* A request stays one: the issues it names do not go away.
LEMMA RequestsGrow ==
  ASSUME \A s : NumbersOf(s) \subseteq NumbersOf(s)'
  PROVE  Requests \subseteq Requests'
<1>1. ASSUME NEW r \in Requests PROVE r \in Requests'
  <2>1. CASE r \in {IssueRequest(s) : s \in Issues} \cup {LabelRequest, MetadataRequest}
    BY <2>1 DEF Requests
  <2>2. CASE r \in UNION {{CommentRequest(s, n, k) : n \in NumbersOf(s), k \in 1 .. Source[s].comments} : s \in Issues}
    <3>1. PICK s \in Issues :
            r \in {CommentRequest(s, n, k) : n \in NumbersOf(s), k \in 1 .. Source[s].comments}
      BY <2>2
    <3>2. PICK n \in NumbersOf(s), k \in 1 .. Source[s].comments : r = CommentRequest(s, n, k)
      BY <3>1
    <3>3. PICK m \in NumbersOf(s)' : m = n
      OBVIOUS
    <3>4. r \in {CommentRequest(s, x, j) : x \in NumbersOf(s)', j \in 1 .. Source[s].comments}
      BY <3>2, <3>3
    <3>. QED BY <3>4 DEF Requests
  <2>3. CASE r \in UNION {{CloseRequest(s, n) : n \in NumbersOf(s)} : s \in Issues}
    <3>1. PICK s \in Issues : r \in {CloseRequest(s, n) : n \in NumbersOf(s)}
      BY <2>3
    <3>2. r \in {CloseRequest(s, n) : n \in NumbersOf(s)'}
      BY <3>1
    <3>. QED BY <3>2 DEF Requests
  <2>. QED BY <2>1, <2>2, <2>3 DEF Requests
<1>. QED BY <1>1

\* The ledger has an entry for the label, for every issue and every comment.
LEMMA ObjectsAre ==
  /\ <<0, 0>> \in Objects
  /\ \A s \in Issues : <<s, 0>> \in Objects
  /\ \A s \in Issues : \A k \in 1 .. Source[s].comments : <<s, k>> \in Objects
<1>1. ASSUME NEW s \in Issues, NEW k \in 0 .. Source[s].comments PROVE <<s, k>> \in Objects
  <2>1. <<s, k>> \in {s} \X (0 .. Source[s].comments)
    OBVIOUS
  <2>. QED BY <2>1 DEF Objects
<1>2. \A s \in Issues : 0 \in 0 .. Source[s].comments
                        /\ \A k \in 1 .. Source[s].comments : k \in 0 .. Source[s].comments
  BY SourceType
<1>. QED BY <1>1, <1>2 DEF Objects

\* The ledger grows at the object the request creates and nowhere else.
LEMMA LedgerGrows ==
  ASSUME TargetOK, NEW r \in Requests, lost' = LostOne(r)
  PROVE  /\ lost' \in [Objects -> Nat]
         /\ \A s \in Issues :
              lost'[<<s, 0>>] = lost[<<s, 0>>] + (IF r = IssueRequest(s) THEN 1 ELSE 0)
         /\ \A s \in Issues : \A k \in 1 .. Source[s].comments :
              lost'[<<s, k>>] = lost[<<s, k>>] +
                 (IF \E n \in NumbersOf(s) : r = CommentRequest(s, n, k) THEN 1 ELSE 0)
         /\ lost'[<<0, 0>>] = lost[<<0, 0>>] + (IF r = LabelRequest THEN 1 ELSE 0)
<1>1. lost \in [Objects -> Nat] /\ \A o \in Objects : lost[o] \in Nat
  BY DEF TargetOK
<1>2. \A s \in Issues : s # 0 /\ \A k \in 1 .. Source[s].comments : k # 0
  BY SourceType
<1>3. CASE \E s \in Issues : r = IssueRequest(s)
  <2>1. PICK s \in Issues : r = IssueRequest(s)
    BY <1>3
  <2>2. lost' = [lost EXCEPT ![<<s, 0>>] = @ + 1]
    BY <2>1, LostOneIs
  <2>3. (\A t : r = IssueRequest(t) <=> t = s) /\ (\A t, n, k : r # CommentRequest(t, n, k)) /\ r # LabelRequest
    BY <2>1, RequestsDiffer
  <2>. QED BY <1>1, <1>2, <2>2, <2>3, ObjectsAre
<1>4. CASE \E s \in Issues, k \in Nat \ {0} : \E n \in NumbersOf(s) :
             k \in 1 .. Source[s].comments /\ r = CommentRequest(s, n, k)
  <2>1. PICK s \in Issues, k \in Nat \ {0} : \E n \in NumbersOf(s) :
               k \in 1 .. Source[s].comments /\ r = CommentRequest(s, n, k)
    BY <1>4
  <2>2. PICK n \in NumbersOf(s) : k \in 1 .. Source[s].comments /\ r = CommentRequest(s, n, k)
    BY <2>1
  <2>3. lost' = [lost EXCEPT ![<<s, k>>] = @ + 1]
    BY <2>2, LostOneIs
  <2>4. /\ \A t : r # IssueRequest(t)
        /\ \A t, j : (\E m \in NumbersOf(t) : r = CommentRequest(t, m, j)) <=> t = s /\ j = k
        /\ r # LabelRequest
    BY <2>2, RequestsDiffer
  <2>5. k # 0 /\ <<s, k>> \in Objects
    BY <2>2, ObjectsAre
  <2>. QED BY <1>1, <1>2, <2>3, <2>4, <2>5, ObjectsAre
<1>5. CASE \/ \E s \in Issues : \E n \in NumbersOf(s) : r = CloseRequest(s, n)
           \/ r = MetadataRequest
  <2>1. lost' = lost
    BY <1>5, LostOneIs
  <2>2. (\A t : r # IssueRequest(t)) /\ (\A t, n, k : r # CommentRequest(t, n, k)) /\ r # LabelRequest
    BY <1>5, RequestsDiffer
  <2>. QED BY <1>1, <2>1, <2>2, ObjectsAre
<1>6. CASE r = LabelRequest
  <2>1. lost' = [lost EXCEPT ![<<0, 0>>] = @ + 1]
    BY <1>6, LostOneIs
  <2>2. (\A t : r # IssueRequest(t)) /\ (\A t, n, k : r # CommentRequest(t, n, k))
    BY <1>6, RequestsDiffer
  <2>. QED BY <1>1, <1>2, <1>6, <2>1, <2>2, ObjectsAre
<1>. QED BY <1>3, <1>4, <1>5, <1>6, RequestKinds

\* The kinds of step the network and the target take together.
NetMoves(r) == Served(r) \/ Unheard(r) \/ Delayed(r) \/ Arrived(r)

\* The target only grows, whatever becomes of a request.
LEMMA TargetGrows ==
  ASSUME TargetOK, NEW r \in Requests, NetMoves(r)
  PROVE  /\ TargetOK'
         /\ \A s : NumbersOf(s) \subseteq NumbersOf(s)'
         /\ Requests \subseteq Requests'
         /\ Len(target.issues) \in Nat /\ Len(target'.issues) \in Nat
         /\ Len(target.issues) <= Len(target'.issues)
         /\ target.described => target'.described
<1>1. CASE target' = target
  <2>1. \A s : NumbersOf(s)' = NumbersOf(s)
    BY <1>1, TargetStays
  <2>2. Len(target.issues) \in Nat
    BY LenProperties DEF TargetOK, TargetRow
  <2>3. lost' \in [Objects -> Nat]
    BY LedgerGrows DEF NetMoves, Served, Unheard, Delayed, Arrived, TargetOK
  <2>. QED BY <1>1, <2>1, <2>2, <2>3, RequestsGrow DEF TargetOK
<1>2. CASE target' = Execute(r)
  <2>1. /\ target' \in TargetRow
        /\ \A n \in DOMAIN target'.issues : \A i \in DOMAIN target'.issues[n].comments :
              target'.issues[n].comments[i] \in 1 .. Source[target'.issues[n].src].comments
        /\ Len(target.issues) \in Nat /\ Len(target'.issues) \in Nat
        /\ Len(target.issues) <= Len(target'.issues)
        /\ target.described => target'.described
    BY <1>2, ExecuteAdds
  <2>2. \A s : NumbersOf(s) \subseteq NumbersOf(s)'
    BY <1>2, ExecuteAdds
  <2>3. lost' \in [Objects -> Nat]
    BY LedgerGrows DEF NetMoves, Served, Unheard, Delayed, Arrived, TargetOK
  <2>. QED BY <2>1, <2>2, <2>3, RequestsGrow DEF TargetOK
<1>. QED BY <1>1, <1>2 DEF NetMoves, Served, Unheard, Delayed, Arrived

\* What still waits is a request of the target as it has become.
LEMMA LateStays ==
  ASSUME TargetOK, NetOK, NEW r \in Requests, NetMoves(r)
  PROVE  late' \in [DOMAIN late' -> Nat \ {0}] /\ DOMAIN late' \subseteq Requests'
<1>1. Requests \subseteq Requests'
  BY TargetGrows
<1>2. late \in [DOMAIN late -> Nat \ {0}] /\ DOMAIN late \subseteq Requests
  BY DEF NetOK
<1>3. CASE late' = late
  BY <1>1, <1>2, <1>3
<1>4. CASE late' = late (+) SetToBag({r})
  <2>1. late' \in [DOMAIN late' -> Nat \ {0}] /\ DOMAIN late' = DOMAIN late \cup {r}
    BY <1>2, <1>4, BagAdds
  <2>2. DOMAIN late' \subseteq Requests'
    BY <1>1, <1>2, <2>1
  <2>. QED BY <2>1, <2>2
<1>5. CASE r \in DOMAIN late /\ late' = late (-) SetToBag({r})
  BY <1>1, <1>2, <1>5, BagRemoves
<1>. QED BY <1>3, <1>4, <1>5 DEF NetMoves, Served, Unheard, Delayed, Arrived
-----------------------------------------------------------------------------
(***************************************************************************)
(* What is on the target or on its way there, beyond what is charged to    *)
(* lost answers.                                                           *)
(***************************************************************************)

OnTarget(s, k) == {p \in NumbersOf(s) \X Nat : p[2] \in PlacedAt(p[1], k)}
InFlight(s, k) == {p \in NumbersOf(s) \X Nat : p[2] \in 1 .. Waiting(CommentRequest(s, p[1], k))}

IssueSurplus(s)      == Cardinality(NumbersOf(s)) + Waiting(IssueRequest(s)) - lost[<<s, 0>>]
CommentSurplus(s, k) == Cardinality(OnTarget(s, k)) + Cardinality(InFlight(s, k)) - lost[<<s, k>>]
LabelSurplus         == target.labels + Waiting(LabelRequest) - lost[<<0, 0>>]

\* The numbers of an issue are finitely many, so that they can be counted.
LEMMA NumbersFinite ==
  ASSUME TargetOK, NEW s
  PROVE  IsFiniteSet(NumbersOf(s)) /\ Cardinality(NumbersOf(s)) \in Nat
<1>1. DOMAIN target.issues = 1 .. Len(target.issues) /\ Len(target.issues) \in Nat
  BY LenProperties DEF TargetOK, TargetRow
<1>2. IsFiniteSet(1 .. Len(target.issues)) /\ NumbersOf(s) \subseteq 1 .. Len(target.issues)
  BY <1>1, FS_Interval DEF NumbersOf
<1>. QED BY <1>2, FS_Subset, FS_CardinalityType

\* The copies of a request on their way, step by step.
LEMMA WaitingMoves ==
  ASSUME NetOK, NEW r
  PROVE  /\ \A q : Waiting(q) \in Nat
         /\ UNCHANGED late => \A q : Waiting(q)' = Waiting(q)
         /\ Delayed(r) => \A q : Waiting(q)' = Waiting(q) + (IF q = r THEN 1 ELSE 0)
         /\ Arrived(r) => /\ \A q : Waiting(q)' = Waiting(q) - (IF q = r THEN 1 ELSE 0)
                          /\ Waiting(r) >= 1
<1>1. late \in [DOMAIN late -> Nat \ {0}]
  BY DEF NetOK
<1>2. \A q : Waiting(q) \in Nat
  BY <1>1 DEF Waiting, CountIn
<1>3. ASSUME UNCHANGED late PROVE \A q : Waiting(q)' = Waiting(q)
  BY <1>3 DEF Waiting, CountIn
<1>4. ASSUME Delayed(r) PROVE \A q : Waiting(q)' = Waiting(q) + (IF q = r THEN 1 ELSE 0)
  <2>1. late' = late (+) SetToBag({r})
    BY <1>4 DEF Delayed
  <2>2. \A q : CountIn(late', q) = CountIn(late, q) + (IF q = r THEN 1 ELSE 0)
    BY <1>1, <2>1 DEF CountIn, (+), SetToBag
  <2>. QED BY <2>2 DEF Waiting
<1>5. ASSUME Arrived(r)
      PROVE  /\ \A q : Waiting(q)' = Waiting(q) - (IF q = r THEN 1 ELSE 0)
             /\ Waiting(r) >= 1
  <2>1. \A q : CountIn(late', q) = CountIn(late, q) - (IF q = r THEN 1 ELSE 0)
    BY <1>1, <1>5, BagRemoves DEF Arrived
  <2>2. CountIn(late, r) >= 1
    BY <1>1, <1>5 DEF Arrived, CountIn
  <2>. QED BY <1>2, <2>1, <2>2 DEF Waiting
<1>. QED BY <1>2, <1>3, <1>4, <1>5

\* Only an answer that is heard can add an issue beyond what is charged.
LEMMA IssueSurplusMoves ==
  ASSUME TargetOK, NetOK, NEW r \in Requests, NEW s \in Issues
  PROVE  /\ IssueSurplus(s) \in Int
         /\ Served(r) => IssueSurplus(s)' = IssueSurplus(s) + (IF r = IssueRequest(s) THEN 1 ELSE 0)
         /\ Unheard(r) \/ Delayed(r) \/ Arrived(r) => IssueSurplus(s)' = IssueSurplus(s)
         /\ NetMoves(r) /\ Waiting(IssueRequest(s)) <= lost[<<s, 0>>] =>
              (Waiting(IssueRequest(s)) <= lost[<<s, 0>>])'
<1>. DEFINE one == IF r = IssueRequest(s) THEN 1 ELSE 0
<1>1. one \in {0, 1}
  OBVIOUS
<1>2. lost[<<s, 0>>] \in Nat
  BY ObjectsAre DEF TargetOK
<1>3. Waiting(IssueRequest(s)) \in Nat
  BY WaitingMoves
<1>4. Cardinality(NumbersOf(s)) \in Nat /\ IsFiniteSet(NumbersOf(s))
  BY NumbersFinite
<1>5. ASSUME target' = Execute(r)
      PROVE  Cardinality(NumbersOf(s)') = Cardinality(NumbersOf(s)) + one
  <2>1. /\ Len(target.issues) + 1 \notin NumbersOf(s)
        /\ NumbersOf(s)' = NumbersOf(s) \cup (IF r = IssueRequest(s) THEN {Len(target.issues) + 1} ELSE {})
    BY <1>5, ExecuteAdds
  <2>2. CASE r = IssueRequest(s)
    BY <1>4, <2>1, <2>2, FS_AddElement
  <2>3. CASE r # IssueRequest(s)
    BY <1>4, <2>1, <2>3
  <2>. QED BY <2>2, <2>3
<1>6. ASSUME target' = target PROVE Cardinality(NumbersOf(s)') = Cardinality(NumbersOf(s))
  BY <1>6, TargetStays
<1>7. ASSUME lost' = LostOne(r) PROVE lost'[<<s, 0>>] = lost[<<s, 0>>] + one
  BY <1>7, LedgerGrows
<1>8. /\ UNCHANGED late => Waiting(IssueRequest(s))' = Waiting(IssueRequest(s))
      /\ Delayed(r) => Waiting(IssueRequest(s))' = Waiting(IssueRequest(s)) + one
      /\ Arrived(r) => Waiting(IssueRequest(s))' = Waiting(IssueRequest(s)) - one
  BY WaitingMoves
<1>. HIDE DEF one
<1>9. /\ Served(r) => IssueSurplus(s)' = IssueSurplus(s) + one
      /\ Unheard(r) \/ Delayed(r) \/ Arrived(r) => IssueSurplus(s)' = IssueSurplus(s)
  BY <1>1, <1>2, <1>3, <1>4, <1>5, <1>6, <1>7, <1>8
     DEF IssueSurplus, Served, Unheard, Delayed, Arrived
<1>10. NetMoves(r) /\ Waiting(IssueRequest(s)) <= lost[<<s, 0>>] =>
         (Waiting(IssueRequest(s)) <= lost[<<s, 0>>])'
  BY <1>1, <1>2, <1>3, <1>7, <1>8 DEF NetMoves, Served, Unheard, Delayed, Arrived
<1>. QED BY <1>2, <1>3, <1>4, <1>9, <1>10 DEF one, IssueSurplus

\* The same of the label.
LEMMA LabelSurplusMoves ==
  ASSUME TargetOK, NetOK, NEW r \in Requests
  PROVE  /\ LabelSurplus \in Int
         /\ Served(r) => LabelSurplus' = LabelSurplus + (IF r = LabelRequest THEN 1 ELSE 0)
         /\ Unheard(r) \/ Delayed(r) \/ Arrived(r) => LabelSurplus' = LabelSurplus
         /\ NetMoves(r) /\ Waiting(LabelRequest) <= lost[<<0, 0>>] =>
              (Waiting(LabelRequest) <= lost[<<0, 0>>])'
<1>. DEFINE one == IF r = LabelRequest THEN 1 ELSE 0
<1>1. one \in {0, 1}
  OBVIOUS
<1>2. lost[<<0, 0>>] \in Nat /\ target.labels \in Nat
  BY ObjectsAre DEF TargetOK, TargetRow
<1>3. Waiting(LabelRequest) \in Nat
  BY WaitingMoves
<1>4. ASSUME target' = Execute(r) PROVE target'.labels = target.labels + one
  BY <1>4, ExecuteAdds
<1>5. ASSUME lost' = LostOne(r) PROVE lost'[<<0, 0>>] = lost[<<0, 0>>] + one
  BY <1>5, LedgerGrows
<1>6. /\ UNCHANGED late => Waiting(LabelRequest)' = Waiting(LabelRequest)
      /\ Delayed(r) => Waiting(LabelRequest)' = Waiting(LabelRequest) + one
      /\ Arrived(r) => Waiting(LabelRequest)' = Waiting(LabelRequest) - one
  BY WaitingMoves
<1>. HIDE DEF one
<1>7. /\ Served(r) => LabelSurplus' = LabelSurplus + one
      /\ Unheard(r) \/ Delayed(r) \/ Arrived(r) => LabelSurplus' = LabelSurplus
  BY <1>1, <1>2, <1>3, <1>4, <1>5, <1>6 DEF LabelSurplus, Served, Unheard, Delayed, Arrived
<1>8. NetMoves(r) /\ Waiting(LabelRequest) <= lost[<<0, 0>>] =>
        (Waiting(LabelRequest) <= lost[<<0, 0>>])'
  BY <1>1, <1>2, <1>3, <1>5, <1>6 DEF NetMoves, Served, Unheard, Delayed, Arrived
<1>. QED BY <1>2, <1>3, <1>7, <1>8 DEF one, LabelSurplus
\* The places of a comment grow by one where it is executed, and nowhere else.
LEMMA OnTargetMoves ==
  ASSUME TargetOK, NEW r \in Requests, NEW s \in Issues, NEW k, target' = Execute(r)
  PROVE  /\ (\A n \in NumbersOf(s) : r # CommentRequest(s, n, k)) => OnTarget(s, k)' = OnTarget(s, k)
         /\ \A n \in NumbersOf(s) : r = CommentRequest(s, n, k) =>
              \E x : x \notin OnTarget(s, k) /\ OnTarget(s, k)' = OnTarget(s, k) \cup {x}
<1>. DEFINE l == Len(target.issues)
<1>1. PICK old, new : old = NumbersOf(s) /\ new = NumbersOf(s)'
  OBVIOUS
<1>2. /\ l + 1 \notin old
      /\ new = old \cup (IF r = IssueRequest(s) THEN {l + 1} ELSE {})
      /\ l \in Nat
  BY <1>1, ExecuteAdds
<1>3. \A n \in old :
        /\ Len(target.issues[n].comments) + 1 \notin PlacedAt(n, k)
        /\ Len(target.issues[n].comments) \in Nat
        /\ PlacedAt(n, k)' = PlacedAt(n, k) \cup
             (IF r = CommentRequest(s, n, k) THEN {Len(target.issues[n].comments) + 1} ELSE {})
  BY <1>1, ExecuteAdds
<1>4. \A n \in new \ old : PlacedAt(n, k)' = {}
  <2>1. \A n \in DOMAIN target'.issues \ DOMAIN target.issues : PlacedAt(n, k)' = {}
    BY ExecuteAdds
  <2>2. new \subseteq DOMAIN target'.issues
    BY <1>1 DEF NumbersOf
  <2>3. DOMAIN target.issues = 1 .. l
    BY LenProperties DEF TargetOK, TargetRow
  <2>4. new \ old \subseteq {l + 1} /\ l + 1 \notin 1 .. l
    BY <1>2
  <2>. QED BY <2>1, <2>2, <2>3, <2>4
<1>5. /\ OnTarget(s, k) = {p \in old \X Nat : p[2] \in PlacedAt(p[1], k)}
      /\ OnTarget(s, k)' = {p \in new \X Nat : p[2] \in PlacedAt(p[1], k)'}
  BY <1>1 DEF OnTarget
<1>6. ASSUME \A n \in old : r # CommentRequest(s, n, k)
      PROVE  OnTarget(s, k)' = OnTarget(s, k)
  <2>1. \A n \in old : PlacedAt(n, k)' = PlacedAt(n, k)
    BY <1>3, <1>6
  <2>2. old \subseteq new
    BY <1>2
  <2>. QED BY <1>4, <1>5, <2>1, <2>2
<1>7. ASSUME NEW n \in old, r = CommentRequest(s, n, k)
      PROVE  \E x : x \notin OnTarget(s, k) /\ OnTarget(s, k)' = OnTarget(s, k) \cup {x}
  <2>. DEFINE c == Len(target.issues[n].comments) + 1
  <2>1. new = old
    BY <1>2, <1>7, RequestsDiffer
  <2>2. \A m \in old : PlacedAt(m, k)' = PlacedAt(m, k) \cup (IF m = n THEN {c} ELSE {})
    <3>1. \A m : r = CommentRequest(s, m, k) <=> m = n
      BY <1>7, RequestsDiffer
    <3>. QED BY <1>3, <3>1
  <2>3. c \in Nat /\ c \notin PlacedAt(n, k)
    BY <1>3
  <2>. HIDE DEF c
  <2>4. <<n, c>> \notin OnTarget(s, k)
    BY <1>5, <2>3
  <2>5. OnTarget(s, k)' = OnTarget(s, k) \cup {<<n, c>>}
    <3>1. ASSUME NEW p \in old \X Nat
          PROVE  p[2] \in PlacedAt(p[1], k)' <=> p[2] \in PlacedAt(p[1], k) \/ p = <<n, c>>
      BY <2>2, <3>1
    <3>2. <<n, c>> \in old \X Nat
      BY <2>3
    <3>. QED BY <1>5, <2>1, <3>1, <3>2
  <2>. QED BY <2>4, <2>5
<1>. HIDE DEF l
<1>. QED BY <1>1, <1>6, <1>7

\* A comment is only ever sent to a copy of its own issue.
LEMMA CommentGoesToCopy ==
  ASSUME NEW s, NEW k, NEW n, NEW r \in Requests, r = CommentRequest(s, n, k)
  PROVE  n \in NumbersOf(s)
<1>1. CASE \E t \in Issues, j \in Nat \ {0} : \E m \in NumbersOf(t) :
              j \in 1 .. Source[t].comments /\ r = CommentRequest(t, m, j)
  <2>1. PICK t \in Issues, j \in Nat \ {0} : \E m \in NumbersOf(t) : r = CommentRequest(t, m, j)
    BY <1>1
  <2>2. PICK m \in NumbersOf(t) : r = CommentRequest(t, m, j)
    BY <2>1
  <2>3. r.on = n /\ r.on = m /\ r.src = s /\ r.src = t
    BY <2>2 DEF CommentRequest
  <2>. QED BY <2>3
<1>2. CASE \/ \E t \in Issues : r = IssueRequest(t)
           \/ \E t \in Issues : \E m \in NumbersOf(t) : r = CloseRequest(t, m)
           \/ r = LabelRequest \/ r = MetadataRequest
  <2>1. r.kind = "comment"
    BY DEF CommentRequest
  <2>. QED BY <1>2, <2>1 DEF IssueRequest, CloseRequest, LabelRequest, MetadataRequest
<1>. QED BY <1>1, <1>2, RequestKinds

\* Counted entries: w[n] of them for each n of S.
Stack(S, w) == {p \in S \X Nat : p[2] \in 1 .. w[p[1]]}

\* The pairs stay as they are while every counter does.
LEMMA StackStays ==
  ASSUME NEW T, NEW S \in SUBSET T, NEW w \in [T -> Nat], NEW v \in [T -> Nat],
         \A n \in T \ S : v[n] = 0, \A n \in S : v[n] = w[n]
  PROVE  Stack(T, v) = Stack(S, w)
BY DEF Stack

\* One entry more is one pair more.
LEMMA StackGrows ==
  ASSUME NEW T, NEW S \in SUBSET T, NEW w \in [T -> Nat], NEW v \in [T -> Nat], NEW n \in S,
         \A m \in T \ S : v[m] = 0, \A m \in S \ {n} : v[m] = w[m], v[n] = w[n] + 1
  PROVE  <<n, v[n]>> \notin Stack(S, w) /\ Stack(T, v) = Stack(S, w) \cup {<<n, v[n]>>}
<1>1. v[n] = w[n] + 1 /\ v[n] \in Nat /\ w[n] \in Nat /\ \A m \in S : m # n => v[m] = w[m]
  <2>1. \A m \in T : w[m] \in Nat /\ v[m] \in Nat
    OBVIOUS
  <2>. QED BY <2>1
<1>2. \A i \in Nat : i \in 1 .. v[n] <=> i \in 1 .. w[n] \/ i = v[n]
  BY <1>1
<1>3. ASSUME NEW m \in T, NEW i \in Nat
      PROVE  <<m, i>> \in Stack(T, v) <=> <<m, i>> \in Stack(S, w) \/ (m = n /\ i = v[n])
  BY <1>1, <1>2 DEF Stack
<1>4. Stack(T, v) \subseteq T \X Nat /\ Stack(S, w) \subseteq T \X Nat /\ <<n, v[n]>> \in T \X Nat
  BY <1>1 DEF Stack
<1>5. <<n, v[n]>> \notin Stack(S, w)
  BY <1>1 DEF Stack
<1>. QED BY <1>3, <1>4, <1>5

\* One entry less is one pair less.
LEMMA StackShrinks ==
  ASSUME NEW T, NEW S \in SUBSET T, NEW w \in [T -> Nat], NEW v \in [T -> Nat], NEW n \in S,
         \A m \in T \ S : v[m] = 0, \A m \in S \ {n} : v[m] = w[m], v[n] = w[n] - 1
  PROVE  <<n, w[n]>> \in Stack(S, w) /\ Stack(T, v) = Stack(S, w) \ {<<n, w[n]>>}
<1>1. v[n] = w[n] - 1 /\ v[n] \in Nat /\ w[n] \in Nat /\ \A m \in S : m # n => v[m] = w[m]
  <2>1. \A m \in T : w[m] \in Nat /\ v[m] \in Nat
    OBVIOUS
  <2>. QED BY <2>1
<1>2. \A i \in Nat : i \in 1 .. v[n] <=> i \in 1 .. w[n] /\ i # w[n]
  BY <1>1
<1>3. ASSUME NEW m \in T, NEW i \in Nat
      PROVE  <<m, i>> \in Stack(T, v) <=> <<m, i>> \in Stack(S, w) /\ ~ (m = n /\ i = w[n])
  BY <1>1, <1>2 DEF Stack
<1>4. Stack(T, v) \subseteq T \X Nat /\ Stack(S, w) \subseteq T \X Nat
  BY DEF Stack
<1>5. <<n, w[n]>> \in Stack(S, w)
  BY <1>1 DEF Stack
<1>. QED BY <1>3, <1>4, <1>5

\* The copies of a comment on their way, step by step.
LEMMA InFlightMoves ==
  ASSUME TargetOK, NetOK, NEW r \in Requests, NEW s \in Issues, NEW k, NetMoves(r)
  PROVE  /\ (\A n \in NumbersOf(s) : r # CommentRequest(s, n, k)) \/ UNCHANGED late =>
              InFlight(s, k)' = InFlight(s, k)
         /\ \A n \in NumbersOf(s) : r = CommentRequest(s, n, k) =>
              /\ Delayed(r) => \E x : x \notin InFlight(s, k) /\ InFlight(s, k)' = InFlight(s, k) \cup {x}
              /\ Arrived(r) => \E x : x \in InFlight(s, k) /\ InFlight(s, k)' = InFlight(s, k) \ {x}
<1>. DEFINE q(n) == CommentRequest(s, n, k)
<1>1. PICK old, new : old = NumbersOf(s) /\ new = NumbersOf(s)'
  OBVIOUS
<1>2. old \in SUBSET new
  BY <1>1, TargetGrows
<1>3. /\ \A n \in new : Waiting(q(n)) \in Nat /\ Waiting(q(n))' \in Nat
      /\ \A n \in new \ old : Waiting(q(n)) = 0 /\ q(n) # r
  <2>1. \A n : Waiting(q(n)) \in Nat
    BY WaitingMoves
  <2>2. late' \in [DOMAIN late' -> Nat \ {0}]
    BY LateStays
  <2>3. \A n : Waiting(q(n))' \in Nat
    BY <2>2 DEF Waiting, CountIn
  <2>4. \A n \in new \ old : q(n) \notin Requests
    <3>. SUFFICES ASSUME NEW n \in new \ old, NEW x \in Requests, x = q(n) PROVE FALSE
      OBVIOUS
    <3>. QED BY <1>1, CommentGoesToCopy
  <2>5. \A n \in new \ old : Waiting(q(n)) = 0 /\ q(n) # r
    BY <2>4 DEF Waiting, CountIn, NetOK
  <2>. QED BY <2>1, <2>3, <2>5
<1>4. PICK w, v : /\ w = [n \in new |-> Waiting(q(n))] /\ v = [n \in new |-> Waiting(q(n))']
  OBVIOUS
<1>5. /\ w \in [new -> Nat] /\ v \in [new -> Nat]
      /\ \A n \in new : w[n] = Waiting(q(n)) /\ v[n] = Waiting(q(n))'
  BY <1>3, <1>4
<1>6. \A n \in new \ old : v[n] = 0
  <2>1. \A x : UNCHANGED late => Waiting(x)' = Waiting(x)
    BY WaitingMoves
  <2>2. \A x : Delayed(r) => Waiting(x)' = Waiting(x) + (IF x = r THEN 1 ELSE 0)
    BY WaitingMoves
  <2>3. \A x : Arrived(r) => Waiting(x)' = Waiting(x) - (IF x = r THEN 1 ELSE 0)
    BY WaitingMoves
  <2>4. UNCHANGED late \/ Delayed(r) \/ Arrived(r)
    BY DEF NetMoves, Served, Unheard
  <2>. HIDE DEF q
  <2>. QED BY <1>3, <1>5, <2>1, <2>2, <2>3, <2>4
<1>7. InFlight(s, k) = Stack(old, w) /\ InFlight(s, k)' = Stack(new, v)
  <2>1. InFlight(s, k) = {p \in old \X Nat : p[2] \in 1 .. Waiting(q(p[1]))}
    BY <1>1 DEF InFlight
  <2>2. InFlight(s, k)' = {p \in new \X Nat : p[2] \in 1 .. Waiting(q(p[1]))'}
    BY <1>1 DEF InFlight
  <2>. HIDE DEF q
  <2>3. InFlight(s, k) = Stack(old, w)
    BY <1>2, <1>5, <2>1 DEF Stack
  <2>4. InFlight(s, k)' = Stack(new, v)
    BY <1>5, <2>2 DEF Stack
  <2>. QED BY <2>3, <2>4
<1>. HIDE DEF q
<1>8. ASSUME (\A n \in old : r # q(n)) \/ UNCHANGED late
      PROVE  InFlight(s, k)' = InFlight(s, k)
  <2>1. \A n \in old : v[n] = w[n]
    <3>1. \A x : UNCHANGED late => Waiting(x)' = Waiting(x)
      BY WaitingMoves
    <3>2. \A x : Delayed(r) => Waiting(x)' = Waiting(x) + (IF x = r THEN 1 ELSE 0)
      BY WaitingMoves
    <3>3. \A x : Arrived(r) => Waiting(x)' = Waiting(x) - (IF x = r THEN 1 ELSE 0)
      BY WaitingMoves
    <3>4. UNCHANGED late \/ Delayed(r) \/ Arrived(r)
      BY DEF NetMoves, Served, Unheard
    <3>. QED BY <1>2, <1>3, <1>5, <1>8, <3>1, <3>2, <3>3, <3>4
  <2>. QED BY <1>2, <1>5, <1>6, <1>7, <2>1, StackStays
<1>9. ASSUME NEW n \in old, r = q(n), Delayed(r)
      PROVE  \E x : x \notin InFlight(s, k) /\ InFlight(s, k)' = InFlight(s, k) \cup {x}
  <2>1. v[n] = w[n] + 1 /\ \A m \in old \ {n} : v[m] = w[m]
    <3>1. \A x : Waiting(x)' = Waiting(x) + (IF x = r THEN 1 ELSE 0)
      BY <1>9, WaitingMoves
    <3>2. \A m : q(m) = r <=> m = n
      BY <1>9, RequestsDiffer DEF q
    <3>. QED BY <1>2, <1>5, <3>1, <3>2
  <2>2. <<n, v[n]>> \notin Stack(old, w) /\ Stack(new, v) = Stack(old, w) \cup {<<n, v[n]>>}
    BY <1>2, <1>5, <1>6, <2>1, StackGrows
  <2>. QED BY <1>7, <2>2
<1>10. ASSUME NEW n \in old, r = q(n), Arrived(r)
       PROVE  \E x : x \in InFlight(s, k) /\ InFlight(s, k)' = InFlight(s, k) \ {x}
  <2>1. v[n] = w[n] - 1 /\ \A m \in old \ {n} : v[m] = w[m]
    <3>1. \A x : Waiting(x)' = Waiting(x) - (IF x = r THEN 1 ELSE 0)
      BY <1>10, WaitingMoves
    <3>2. \A m : q(m) = r <=> m = n
      BY <1>10, RequestsDiffer DEF q
    <3>. QED BY <1>2, <1>5, <3>1, <3>2
  <2>2. <<n, w[n]>> \in Stack(old, w) /\ Stack(new, v) = Stack(old, w) \ {<<n, w[n]>>}
    BY <1>2, <1>5, <1>6, <2>1, StackShrinks
  <2>. QED BY <1>7, <2>2
<1>. QED BY <1>1, <1>8, <1>9, <1>10 DEF q
Finite(s, k) == IsFiniteSet(OnTarget(s, k)) /\ IsFiniteSet(InFlight(s, k))

\* A comment too is added beyond what is charged by a heard answer only.
LEMMA CommentSurplusMoves ==
  ASSUME TargetOK, NetOK, NEW r \in Requests, NEW s \in Issues,
         NEW k \in 1 .. Source[s].comments, Finite(s, k), NetMoves(r)
  PROVE  /\ CommentSurplus(s, k) \in Int
         /\ Finite(s, k)'
         /\ Served(r) => CommentSurplus(s, k)' = CommentSurplus(s, k) +
              (IF \E n \in NumbersOf(s) : r = CommentRequest(s, n, k) THEN 1 ELSE 0)
         /\ Unheard(r) \/ Delayed(r) \/ Arrived(r) => CommentSurplus(s, k)' = CommentSurplus(s, k)
<1>. DEFINE one == IF \E n \in NumbersOf(s) : r = CommentRequest(s, n, k) THEN 1 ELSE 0
            on == Cardinality(OnTarget(s, k))
            fly == Cardinality(InFlight(s, k))
<1>1. one \in {0, 1} /\ on \in Nat /\ fly \in Nat /\ lost[<<s, k>>] \in Nat
  BY FS_CardinalityType, ObjectsAre DEF Finite, TargetOK
<1>2. ASSUME target' = Execute(r)
      PROVE  Cardinality(OnTarget(s, k)') = on + one /\ IsFiniteSet(OnTarget(s, k)')
  <2>1. CASE \A n \in NumbersOf(s) : r # CommentRequest(s, n, k)
    <3>1. OnTarget(s, k)' = OnTarget(s, k)
      BY <1>2, <2>1, OnTargetMoves
    <3>. QED BY <1>1, <2>1, <3>1 DEF Finite
  <2>2. CASE \E n \in NumbersOf(s) : r = CommentRequest(s, n, k)
    <3>1. PICK x : x \notin OnTarget(s, k) /\ OnTarget(s, k)' = OnTarget(s, k) \cup {x}
      BY <1>2, <2>2, OnTargetMoves
    <3>. QED BY <1>1, <2>2, <3>1, FS_AddElement DEF Finite
  <2>. QED BY <2>1, <2>2
<1>3. ASSUME target' = target PROVE OnTarget(s, k)' = OnTarget(s, k)
  BY <1>3, TargetStays DEF OnTarget
<1>4. ASSUME lost' = LostOne(r) PROVE lost'[<<s, k>>] = lost[<<s, k>>] + one
  BY <1>4, LedgerGrows
<1>5. ASSUME UNCHANGED late PROVE InFlight(s, k)' = InFlight(s, k)
  BY <1>5, InFlightMoves
<1>6. ASSUME \A n \in NumbersOf(s) : r # CommentRequest(s, n, k)
      PROVE  one = 0 /\ InFlight(s, k)' = InFlight(s, k)
  BY <1>6, InFlightMoves
<1>7. ASSUME Delayed(r)
      PROVE  Cardinality(InFlight(s, k)') = fly + one /\ IsFiniteSet(InFlight(s, k)')
  <2>1. CASE \E n \in NumbersOf(s) : r = CommentRequest(s, n, k)
    <3>1. PICK x : x \notin InFlight(s, k) /\ InFlight(s, k)' = InFlight(s, k) \cup {x}
      BY <1>7, <2>1, InFlightMoves
    <3>. QED BY <1>1, <2>1, <3>1, FS_AddElement DEF Finite
  <2>. QED BY <1>1, <1>6, <2>1 DEF Finite
<1>8. ASSUME Arrived(r)
      PROVE  Cardinality(InFlight(s, k)') = fly - one /\ IsFiniteSet(InFlight(s, k)')
  <2>1. CASE \E n \in NumbersOf(s) : r = CommentRequest(s, n, k)
    <3>1. PICK x : x \in InFlight(s, k) /\ InFlight(s, k)' = InFlight(s, k) \ {x}
      BY <1>8, <2>1, InFlightMoves
    <3>. QED BY <1>1, <2>1, <3>1, FS_RemoveElement DEF Finite
  <2>. QED BY <1>1, <1>6, <2>1 DEF Finite
<1>9. CommentSurplus(s, k) = on + fly - lost[<<s, k>>]
  BY DEF CommentSurplus
<1>10. CommentSurplus(s, k)' =
         Cardinality(OnTarget(s, k)') + Cardinality(InFlight(s, k)') - lost'[<<s, k>>]
  BY DEF CommentSurplus
<1>11. ASSUME Served(r) PROVE CommentSurplus(s, k)' = CommentSurplus(s, k) + one /\ Finite(s, k)'
  <2>1. /\ Cardinality(OnTarget(s, k)') = on + one /\ IsFiniteSet(OnTarget(s, k)')
        /\ InFlight(s, k)' = InFlight(s, k) /\ lost' = lost
    BY <1>2, <1>5, <1>11 DEF Served
  <2>2. Finite(s, k)'
    BY <2>1 DEF Finite
  <2>. QED BY <1>1, <1>9, <1>10, <2>1, <2>2
<1>12. ASSUME Unheard(r) PROVE CommentSurplus(s, k)' = CommentSurplus(s, k) /\ Finite(s, k)'
  <2>1. /\ Cardinality(OnTarget(s, k)') = on + one /\ IsFiniteSet(OnTarget(s, k)')
        /\ InFlight(s, k)' = InFlight(s, k) /\ lost'[<<s, k>>] = lost[<<s, k>>] + one
    BY <1>2, <1>4, <1>5, <1>12 DEF Unheard
  <2>2. Finite(s, k)'
    BY <2>1 DEF Finite
  <2>. QED BY <1>1, <1>9, <1>10, <2>1, <2>2
<1>13. ASSUME Delayed(r) PROVE CommentSurplus(s, k)' = CommentSurplus(s, k) /\ Finite(s, k)'
  <2>1. /\ OnTarget(s, k)' = OnTarget(s, k) /\ lost'[<<s, k>>] = lost[<<s, k>>] + one
        /\ Cardinality(InFlight(s, k)') = fly + one /\ IsFiniteSet(InFlight(s, k)')
    BY <1>3, <1>4, <1>7, <1>13 DEF Delayed
  <2>2. Finite(s, k)'
    BY <2>1 DEF Finite
  <2>. QED BY <1>1, <1>9, <1>10, <2>1, <2>2
<1>14. ASSUME Arrived(r) PROVE CommentSurplus(s, k)' = CommentSurplus(s, k) /\ Finite(s, k)'
  <2>1. /\ Cardinality(OnTarget(s, k)') = on + one /\ IsFiniteSet(OnTarget(s, k)')
        /\ Cardinality(InFlight(s, k)') = fly - one /\ IsFiniteSet(InFlight(s, k)')
        /\ lost' = lost
    BY <1>2, <1>8, <1>14 DEF Arrived
  <2>2. Finite(s, k)'
    BY <2>1 DEF Finite
  <2>. QED BY <1>1, <1>9, <1>10, <2>1, <2>2
<1>15. CommentSurplus(s, k) \in Int
  BY <1>1, <1>9
<1>. HIDE DEF on, fly
<1>. QED BY <1>11, <1>12, <1>13, <1>14, <1>15 DEF one, NetMoves
-----------------------------------------------------------------------------
(***************************************************************************)
(* Where the worker is while a request is under way, and that every        *)
(* variable keeps its type.                                                *)
(***************************************************************************)

ReportRow == [fidelity : Fidelities, ok : BOOLEAN, source_count : Nat, target_count : Nat]

ModulesOK == /\ modules \in [DOMAIN modules -> ReportRow]
             /\ DOMAIN modules \subseteq {"metadata", "issues"}

MemoryOK ==
    /\ route \in Routes /\ listed \in BOOLEAN /\ run \in 0 .. MaxRuns
    /\ pc \in {"idle", "metadata", "list", "scan", "labels", "issue", "comments", "persist", "verify"}
    /\ loaded \subseteq Issues /\ DOMAIN existing \subseteq Issues
    /\ \A s \in DOMAIN existing : existing[s] \in NumbersOf(s)
    /\ cur \in 1 .. Len(Source) + 1 /\ made \in 0 .. Len(target.issues) /\ said \in Nat
    /\ migrated \cup failed \subseteq 1 .. cur - 1 /\ migrated \cap failed = {}
    /\ ModulesOK
    /\ broken \in BOOLEAN /\ archived \in BOOLEAN
    /\ status \in {"planned", "running", "retryable_failed", "partial", "succeeded"}

\* What is asked of the target is what the worker's place calls for.
Calling ==
    call # NONE =>
      \/ pc = "metadata" /\ call.req = MetadataRequest
      \/ pc = "labels" /\ call.req = LabelRequest
      \/ pc = "issue" /\ cur \in Issues /\ cur \notin DOMAIN existing /\ call.req = IssueRequest(cur)
      \/ pc = "comments" /\ said < CommentsOf(cur) /\ call.req = CommentRequest(cur, made, said + 1)
      \/ pc = "comments" /\ said = CommentsOf(cur) /\ call.req = CloseRequest(cur, made)

\* Comments go to the copy just made of an issue the scan did not find.
Placed ==
    /\ pc = "comments" => /\ cur \in Issues /\ cur \notin DOMAIN existing
                          /\ made \in NumbersOf(cur) /\ said <= CommentsOf(cur)
    /\ pc # "idle" => status = "running"

Base == TargetOK /\ NetOK /\ MemoryOK /\ Calling /\ Placed

\* The target, its ledger and the network move by one request or not at all.
World == Quiet \/ \E r \in Requests : NetMoves(r)

\* The target only grows.
LEMMA WorldGrows ==
  ASSUME TargetOK, NetOK, World
  PROVE  /\ TargetOK'
         /\ late' \in [DOMAIN late' -> Nat \ {0}] /\ DOMAIN late' \subseteq Requests'
         /\ \A s : NumbersOf(s) \subseteq NumbersOf(s)'
         /\ Requests \subseteq Requests'
         /\ Len(target.issues) \in Nat /\ Len(target'.issues) \in Nat
         /\ Len(target.issues) <= Len(target'.issues)
         /\ target.described => target'.described
<1>1. CASE Quiet
  <2>1. /\ target' = target /\ late' = late /\ lost' = lost
        /\ Requests' = Requests /\ \A s : NumbersOf(s)' = NumbersOf(s)
    BY <1>1, TargetStays DEF Quiet
  <2>2. Len(target.issues) \in Nat
    BY LenProperties DEF TargetOK, TargetRow
  <2>. QED BY <2>1, <2>2 DEF TargetOK, NetOK
<1>2. CASE \E r \in Requests : NetMoves(r)
  <2>1. PICK r \in Requests : NetMoves(r)
    BY <1>2
  <2>. QED BY <2>1, TargetGrows, LateStays
<1>. QED BY <1>1, <1>2 DEF World

Heard(answer) ==
    \/ AfterIssue(answer) \/ AfterComment(answer) \/ AfterClose(answer)
    \/ AfterLabel(answer) \/ AfterMetadata(answer)

\* An exchange goes on with the same request, or its answer is heard.
LEMMA ExchangeIs ==
  ASSUME NetOK, Exchange
  PROVE  /\ call # NONE /\ call.req \in Requests
         /\ UNCHANGED <<run, archived, status, fixed>> /\ losses' \in 0 .. MaxLost
         /\ \/ /\ call' \in [req : {call.req}, tried : 0 .. MaxAttempts - 1]
               /\ Quiet \/ Unheard(call.req) \/ Delayed(call.req)
               /\ UNCHANGED <<loop_vars, pc, modules, broken>>
            \/ /\ call' = NONE
               /\ \E answer \in Answers :
                    /\ Heard(answer)
                    /\ \/ Served(call.req)
                       \/ answer # "done" /\ (Quiet \/ Unheard(call.req) \/ Delayed(call.req))
<1>1. PICK outcome \in Outcomes :
        /\ Settle(outcome[1], outcome[2])
        /\ target' = IF outcome[2] = "now" THEN Execute(call.req) ELSE target
        /\ lost' = IF Lost(outcome[1], outcome[2]) THEN LostOne(call.req) ELSE lost
        /\ IF SentAgain(outcome[1]) THEN UNCHANGED <<loop_vars, pc, modules, broken>>
                                    ELSE Heard(outcome[1])
        /\ UNCHANGED <<run, archived, status, fixed>>
  BY DEF Exchange, Heard
<1>2. PICK answer, effect : answer = outcome[1] /\ effect = outcome[2]
  OBVIOUS
<1>3. \/ answer = "done" /\ effect = "now"
      \/ answer = "garbled" /\ effect = "now"
      \/ answer \in {"refused", "unavailable"} /\ effect = "never"
      \/ answer = "unavailable" /\ effect \in {"now", "later"} /\ losses < MaxLost
  BY <1>2 DEF Outcomes
<1>4. /\ call # NONE /\ call \in [req : Requests, tried : 0 .. MaxAttempts - 1]
      /\ late' = IF effect = "later" THEN late (+) SetToBag({call.req}) ELSE late
      /\ losses' = losses + (IF Lost(answer, effect) THEN 1 ELSE 0)
      /\ call' = IF SentAgain(answer) THEN [call EXCEPT !.tried = @ + 1] ELSE NONE
  BY <1>1, <1>2 DEF Settle, NetOK
<1>5. losses' \in 0 .. MaxLost
  BY <1>3, <1>4, TransportAssumption DEF NetOK, Lost, Retryable
<1>6. /\ effect = "now" => target' = Execute(call.req) /\ late' = late
      /\ effect = "later" => target' = target /\ late' = late (+) SetToBag({call.req})
      /\ effect = "never" => target' = target /\ late' = late
      /\ Lost(answer, effect) => lost' = LostOne(call.req)
      /\ ~ Lost(answer, effect) => lost' = lost
      /\ Lost(answer, effect) <=> answer = "unavailable" /\ effect \in {"now", "later"}
  BY <1>1, <1>2, <1>3, <1>4 DEF Lost, Retryable
<1>7. \/ Served(call.req) /\ answer # "unavailable"
      \/ answer # "done" /\ (Quiet \/ Unheard(call.req) \/ Delayed(call.req))
  BY <1>3, <1>6 DEF Served, Quiet, Unheard, Delayed
<1>8. CASE SentAgain(answer)
  <2>1. answer = "unavailable" /\ call.tried + 1 < MaxAttempts
    BY <1>8 DEF SentAgain, Retryable
  <2>2. call' \in [req : {call.req}, tried : 0 .. MaxAttempts - 1]
    BY <1>4, <1>8, <2>1, TransportAssumption
  <2>. QED BY <1>1, <1>2, <1>4, <1>5, <1>7, <1>8, <2>1, <2>2
<1>9. CASE ~ SentAgain(answer)
  <2>1. call' = NONE /\ Heard(answer)
    BY <1>1, <1>2, <1>4, <1>9
  <2>2. answer \in Answers
    BY <1>3 DEF Answers
  <2>. QED BY <1>1, <1>4, <1>5, <1>7, <2>1, <2>2
<1>. QED BY <1>8, <1>9
\* Whose answer is heard, and what the worker does with it.
LEMMA HeardIs ==
  ASSUME Calling, call # NONE, NEW answer, Heard(answer)
  PROVE  \/ /\ pc = "metadata" /\ call.req = MetadataRequest
            /\ AfterMetadata(answer)
         \/ /\ pc = "labels" /\ call.req = LabelRequest
            /\ AfterLabel(answer)
         \/ /\ pc = "issue" /\ cur \in Issues /\ cur \notin DOMAIN existing /\ call.req = IssueRequest(cur)
            /\ AfterIssue(answer)
         \/ /\ pc = "comments" /\ said < CommentsOf(cur) /\ call.req = CommentRequest(cur, made, said + 1)
            /\ AfterComment(answer)
         \/ /\ pc = "comments" /\ said = CommentsOf(cur) /\ call.req = CloseRequest(cur, made)
            /\ AfterClose(answer)
<1>1. /\ \A s : IssueRequest(s).kind = "issue"
      /\ \A s, n, k : CommentRequest(s, n, k).kind = "comment"
      /\ \A s, n : CloseRequest(s, n).kind = "close"
      /\ LabelRequest.kind = "label" /\ MetadataRequest.kind = "metadata"
  BY DEF IssueRequest, CommentRequest, CloseRequest, LabelRequest, MetadataRequest
<1>2. /\ AfterIssue(answer) => call.req.kind = "issue"
      /\ AfterComment(answer) => call.req.kind = "comment"
      /\ AfterClose(answer) => call.req.kind = "close"
      /\ AfterLabel(answer) => call.req.kind = "label"
      /\ AfterMetadata(answer) => call.req.kind = "metadata"
  BY DEF AfterIssue, AfterComment, AfterClose, AfterLabel, AfterMetadata
<1>. QED BY <1>1, <1>2 DEF Calling, Heard

\* What the worker asks for is a request to the target as it is.
LEMMA AskedAre ==
  ASSUME MemoryOK, Placed
  PROVE  /\ MetadataRequest \in Requests /\ LabelRequest \in Requests
         /\ \A s \in Issues : IssueRequest(s) \in Requests
         /\ pc = "comments" => CloseRequest(cur, made) \in Requests
         /\ pc = "comments" /\ said < CommentsOf(cur) => CommentRequest(cur, made, said + 1) \in Requests
<1>1. ASSUME pc = "comments", said < CommentsOf(cur)
      PROVE  CommentRequest(cur, made, said + 1) \in Requests
  <2>1. cur \in Issues /\ made \in NumbersOf(cur)
    BY <1>1 DEF Placed
  <2>2. said + 1 \in 1 .. Source[cur].comments
    BY <1>1, <2>1, SourceType DEF CommentsOf, MemoryOK
  <2>3. CommentRequest(cur, made, said + 1) \in
          {CommentRequest(cur, n, k) : n \in NumbersOf(cur), k \in 1 .. Source[cur].comments}
    BY <2>1, <2>2
  <2>. QED BY <2>1, <2>3 DEF Requests
<1>2. ASSUME pc = "comments" PROVE CloseRequest(cur, made) \in Requests
  <2>1. cur \in Issues /\ made \in NumbersOf(cur)
    BY <1>2 DEF Placed
  <2>2. CloseRequest(cur, made) \in {CloseRequest(cur, n) : n \in NumbersOf(cur)}
    BY <2>1
  <2>. QED BY <2>1, <2>2 DEF Requests
<1>3. /\ MetadataRequest \in Requests /\ LabelRequest \in Requests
      /\ \A s \in Issues : IssueRequest(s) \in Requests
  BY DEF Requests
<1>. QED BY <1>1, <1>2, <1>3

\* The worker's own steps.
Asks(r) == Send(r) /\ UNCHANGED target_vars
Idles   == UNCHANGED <<httpVars, target_vars>>

Local ==
    \/ BeginAttempt \/ ReadMetadata \/ StopBeforeStage \/ ArchiveOnly
    \/ ListSource \/ ScanTarget \/ EnsureLabels
    \/ SkipExisting \/ CreateIssue \/ PostComment \/ CloseIssue \/ IssueDone
    \/ ReportIssues \/ PersistArchives \/ Verify

\* They write nothing themselves: they send a request, or not even that.
LEMMA LocalIs ==
  ASSUME Base, Local
  PROVE  Idles \/ \E r \in Requests : Asks(r)
<1>1. \/ BeginAttempt \/ StopBeforeStage \/ ArchiveOnly \/ ListSource \/ ScanTarget
      \/ SkipExisting \/ IssueDone \/ ReportIssues \/ PersistArchives \/ Verify
      => Idles
  BY DEF BeginAttempt, StopBeforeStage, ArchiveOnly, ListSource, ScanTarget, SkipExisting,
         IssueDone, ReportIssues, PersistArchives, Verify, Idles
<1>2. ReadMetadata => Idles \/ Asks(MetadataRequest)
  BY DEF ReadMetadata, Idles, Asks
<1>3. EnsureLabels => Idles \/ Asks(LabelRequest)
  BY DEF EnsureLabels, Idles, Asks
<1>4. CreateIssue => cur \in Issues /\ Asks(IssueRequest(cur))
  BY DEF CreateIssue, Asks
<1>5. PostComment => /\ pc = "comments" /\ said < CommentsOf(cur)
                     /\ Asks(CommentRequest(cur, made, said + 1))
  BY DEF PostComment, Asks
<1>6. CloseIssue => pc = "comments" /\ Asks(CloseRequest(cur, made))
  BY DEF CloseIssue, Asks
<1>. QED BY <1>1, <1>2, <1>3, <1>4, <1>5, <1>6, AskedAre DEF Local, Base

\* One step of the target, the network and the client's side of it.
LEMMA NetStep ==
  ASSUME Base, [Next]_vars
  PROVE  World /\ NetOK'
<1>. USE DEF Base
<1>1. CASE Local \/ UNCHANGED vars
  <2>1. Idles \/ \E r \in Requests : Asks(r)
    BY <1>1, LocalIs DEF vars, Idles
  <2>2. Quiet /\ losses' = losses /\ Requests' = Requests
    BY <2>1, TargetStays DEF Idles, Asks, Send, Quiet, target_vars, httpVars
  <2>3. call' = call \/ \E r \in Requests : call' = [req |-> r, tried |-> 0]
    BY <2>1 DEF Idles, Asks, Send, httpVars
  <2>4. call' \in [req : Requests, tried : 0 .. MaxAttempts - 1] \cup {NONE}
    BY <2>3, TransportAssumption DEF NetOK
  <2>. QED BY <2>2, <2>4 DEF World, NetOK, Quiet
<1>2. CASE Exchange
  <2>1. /\ call.req \in Requests /\ losses' \in 0 .. MaxLost
        /\ \/ call' \in [req : {call.req}, tried : 0 .. MaxAttempts - 1]
           \/ call' = NONE
        /\ Quiet \/ Unheard(call.req) \/ Delayed(call.req) \/ Served(call.req)
    BY <1>2, ExchangeIs
  <2>2. World
    BY <2>1 DEF World, NetMoves
  <2>3. Requests \subseteq Requests' /\ late' \in [DOMAIN late' -> Nat \ {0}] /\ DOMAIN late' \subseteq Requests'
    BY <2>2, WorldGrows
  <2>4. call' \in [req : Requests', tried : 0 .. MaxAttempts - 1] \cup {NONE}
    BY <2>1, <2>3
  <2>. QED BY <2>1, <2>2, <2>3, <2>4 DEF NetOK
<1>3. CASE LateArrival
  <2>1. PICK r \in BagToSet(late) : Arrive(r) /\ target' = Execute(r) /\ UNCHANGED lost
    BY <1>3 DEF LateArrival
  <2>2. r \in DOMAIN late /\ r \in Requests /\ Arrived(r) /\ UNCHANGED <<call, losses>>
    BY <2>1 DEF Arrive, Arrived, BagToSet, NetOK
  <2>3. World
    BY <2>2 DEF World, NetMoves
  <2>4. Requests \subseteq Requests' /\ late' \in [DOMAIN late' -> Nat \ {0}] /\ DOMAIN late' \subseteq Requests'
    BY <2>3, WorldGrows
  <2>. QED BY <2>2, <2>3, <2>4 DEF NetOK
<1>4. CASE Crash
  <2>1. PICK effect \in {"later", "never"} :
          /\ Abandon(effect)
          /\ lost' = IF effect = "later" THEN LostOne(call.req) ELSE lost
    BY <1>4 DEF Crash
  <2>2. call' = NONE /\ losses' \in 0 .. MaxLost /\ target' = target
    BY <1>4, <2>1, TransportAssumption DEF Abandon, Crash, NetOK
  <2>3. Quiet \/ (call.req \in Requests /\ Delayed(call.req))
    BY <1>4, <2>1, <2>2 DEF Abandon, Quiet, Delayed, NetOK
  <2>4. World
    BY <2>3 DEF World, NetMoves
  <2>5. late' \in [DOMAIN late' -> Nat \ {0}] /\ DOMAIN late' \subseteq Requests'
    BY <2>4, WorldGrows
  <2>. QED BY <2>2, <2>4, <2>5 DEF NetOK
<1>. QED BY <1>1, <1>2, <1>3, <1>4 DEF Next, Program, Local
\* A recorded report is kept, or the attempt is broken.
LEMMA RecordIs ==
  ASSUME ModulesOK, NEW module \in {"metadata", "issues"}, NEW report \in ReportRow, NEW next,
         Record(module, report, next)
  PROVE  /\ ModulesOK'
         /\ \/ pc' = next /\ broken' = broken
            \/ pc' = "persist" /\ broken' = TRUE
<1>1. CASE modules' = [m \in DOMAIN modules \cup {module} |-> IF m = module THEN report ELSE modules[m]]
  <2>1. \A m \in DOMAIN modules : modules[m] \in ReportRow
    BY DEF ModulesOK
  <2>2. ModulesOK'
    BY <1>1, <2>1 DEF ModulesOK
  <2>. QED BY <2>2 DEF Record
<1>. QED BY <1>1 DEF Record, ModulesOK

\* Every report the stages record is one.
LEMMA ReportsAre ==
  /\ \A ok \in BOOLEAN, f \in Fidelities, m, n \in Nat : Report(f, ok, m, n) \in ReportRow
  /\ "native_rebuild" \in Fidelities /\ "unsupported" \in Fidelities /\ "read_only_archive" \in Fidelities
BY DEF Report, ReportRow, Fidelities

\* What a failed or dead attempt leaves in memory.
LEMMA ForgetIs ==
  ASSUME Forget
  PROVE  /\ loaded' = {} /\ DOMAIN existing' = {} /\ cur' = 1 /\ made' = 0 /\ said' = 0
         /\ migrated' = {} /\ failed' = {} /\ DOMAIN modules' = {} /\ ModulesOK' /\ broken' = FALSE
<1>1. /\ loaded' = {} /\ existing' = <<>> /\ cur' = 1 /\ made' = 0 /\ said' = 0
      /\ migrated' = {} /\ failed' = {} /\ modules' = <<>> /\ broken' = FALSE
  BY DEF Forget
<1>2. <<>> \in Seq(ReportRow) /\ DOMAIN <<>> = {}
  BY EmptySeq
<1>3. <<>> \in [{} -> ReportRow]
  <2>1. <<>> \in [1 .. Len(<<>>) -> ReportRow] /\ Len(<<>>) = 0
    BY <1>2, LenProperties, EmptySeq
  <2>2. 1 .. 0 = {}
    OBVIOUS
  <2>. QED BY <2>1, <2>2
<1>4. ModulesOK'
  BY <1>1, <1>2, <1>3 DEF ModulesOK
<1>. QED BY <1>1, <1>2, <1>4

\* The scan remembers a copy of every issue it found.
LEMMA ScanFindsCopies ==
  ASSUME TargetOK
  PROVE  /\ DOMAIN ExistingMigrations = {s \in Issues : NumbersOf(s) # {}}
         /\ \A s \in DOMAIN ExistingMigrations : ExistingMigrations[s] \in NumbersOf(s)
<1>1. DOMAIN target.issues = 1 .. Len(target.issues) /\ Len(target.issues) \in Nat
  BY LenProperties DEF TargetOK, TargetRow
<1>2. ASSUME NEW s \in Issues, NumbersOf(s) # {} PROVE Max(NumbersOf(s)) \in NumbersOf(s)
  <2>1. NumbersOf(s) \in SUBSET (1 .. Len(target.issues))
    BY <1>1 DEF NumbersOf
  <2>. QED BY <1>1, <1>2, <2>1, MaxExists
<1>. QED BY <1>2 DEF ExistingMigrations

\* Where the worker is, and what it holds, after each step of its own.
LEMMA LocalMemory ==
  ASSUME Base, Local
  PROVE  MemoryOK' /\ Calling' /\ Placed'
<1>. USE DEF Base, fixed
<1>1. /\ target' = target /\ \A s : NumbersOf(s)' = NumbersOf(s)
      /\ \A s : CommentsOf(s) \in Nat
      /\ Len(Source) \in Nat /\ Issues = 1 .. Len(Source) /\ Len(target.issues) \in Nat
  <2>1. target' = target
    BY LocalIs DEF Idles, Asks, target_vars
  <2>2. \A s : CommentsOf(s) \in Nat
    BY SourceType DEF CommentsOf, MemoryOK
  <2>3. Len(target.issues) \in Nat
    BY LenProperties DEF TargetOK, TargetRow
  <2>. QED BY <2>1, <2>2, <2>3, TargetStays, SourceType
<1>2. CASE BeginAttempt
  <2>1. call' = call /\ call = NONE
    BY <1>2 DEF BeginAttempt, Calling, httpVars
  <2>2. MemoryOK'
    <3>1. run' \in 0 .. MaxRuns
      BY <1>2, SourceAssumption DEF BeginAttempt, MemoryOK
    <3>. QED BY <1>1, <1>2, <3>1 DEF BeginAttempt, MemoryOK, ModulesOK, loop_vars
  <2>. QED BY <1>2, <2>1, <2>2 DEF BeginAttempt, Calling, Placed
<1>3. CASE ReadMetadata
  <2>1. \/ pc' = pc /\ broken' = broken /\ modules' = modules /\ call'.req = MetadataRequest
        \/ call' = call /\ call = NONE /\ Record("metadata", Report("unsupported", FALSE, 0, 0), "list")
    <3>1. CASE Send(MetadataRequest) /\ UNCHANGED <<pc, modules, broken>>
      BY <3>1 DEF Send
    <3>2. CASE Record("metadata", Report("unsupported", FALSE, 0, 0), "list") /\ UNCHANGED httpVars
      BY <1>3, <3>2 DEF ReadMetadata, httpVars
    <3>. QED BY <1>3, <3>1, <3>2 DEF ReadMetadata
  <2>2. /\ ModulesOK'
        /\ \/ pc' = "metadata" /\ broken' = broken /\ call'.req = MetadataRequest
           \/ pc' \in {"list", "persist"} /\ broken' \in BOOLEAN /\ call' = NONE
    BY <1>3, <2>1, RecordIs, ReportsAre DEF MemoryOK, ModulesOK, ReadMetadata
  <2>3. MemoryOK'
    BY <1>1, <1>3, <2>2 DEF ReadMetadata, MemoryOK, loop_vars
  <2>. QED BY <1>3, <2>2, <2>3 DEF ReadMetadata, Calling, Placed
<1>4. CASE StopBeforeStage
  <2>1. MemoryOK'
    BY <1>1, <1>4 DEF StopBeforeStage, MemoryOK, ModulesOK, loop_vars
  <2>. QED BY <1>4, <2>1 DEF StopBeforeStage, Calling, Placed, httpVars
<1>5. CASE ArchiveOnly
  <2>1. ModulesOK' /\ pc' = "persist" /\ broken' \in BOOLEAN
    <3>1. Report("read_only_archive", TRUE, Len(Source), 0) \in ReportRow
      BY <1>1, ReportsAre
    <3>2. Report("unsupported", route = "unsupported", 0, 0) \in ReportRow
      BY <1>1, ReportsAre
    <3>. QED BY <1>5, <3>1, <3>2, RecordIs DEF ArchiveOnly, MemoryOK
  <2>2. MemoryOK'
    BY <1>1, <1>5, <2>1 DEF ArchiveOnly, MemoryOK, loop_vars
  <2>. QED BY <1>5, <2>1, <2>2 DEF ArchiveOnly, Calling, Placed, httpVars
<1>6. CASE ListSource
  <2>1. /\ ModulesOK' /\ pc' \in {"scan", "persist"} /\ broken' \in BOOLEAN
        /\ loaded' \subseteq Issues
    BY <1>6, RecordIs, ReportsAre DEF ListSource, ModuleFails, MemoryOK, ModulesOK
  <2>2. MemoryOK'
    BY <1>1, <1>6, <2>1 DEF ListSource, MemoryOK
  <2>. QED BY <1>6, <2>1, <2>2 DEF ListSource, Calling, Placed, httpVars
<1>7. CASE ScanTarget
  <2>1. /\ ModulesOK' /\ pc' \in {"labels", "persist"} /\ broken' \in BOOLEAN
        /\ DOMAIN existing' \subseteq Issues /\ \A s \in DOMAIN existing' : existing'[s] \in NumbersOf(s)
    BY <1>7, RecordIs, ReportsAre, ScanFindsCopies DEF ScanTarget, ModuleFails, MemoryOK, ModulesOK
  <2>2. MemoryOK'
    BY <1>1, <1>7, <2>1 DEF ScanTarget, MemoryOK
  <2>. QED BY <1>7, <2>1, <2>2 DEF ScanTarget, Calling, Placed, httpVars
<1>8. CASE EnsureLabels
  <2>1. /\ ModulesOK' /\ broken' \in BOOLEAN
        /\ \/ pc' = "labels" /\ call'.req = LabelRequest
           \/ pc' \in {"issue", "persist"} /\ call' = NONE
    <3>1. CASE Send(LabelRequest) /\ UNCHANGED <<pc, modules, broken>>
      BY <1>8, <3>1 DEF EnsureLabels, Send, MemoryOK, ModulesOK
    <3>2. CASE pc' = "issue" /\ UNCHANGED <<httpVars, modules, broken>>
      BY <1>8, <3>2 DEF EnsureLabels, httpVars, MemoryOK, ModulesOK
    <3>3. CASE ModuleFails /\ UNCHANGED httpVars
      BY <1>8, <3>3, RecordIs, ReportsAre DEF EnsureLabels, ModuleFails, httpVars, MemoryOK
    <3>. QED BY <1>8, <3>1, <3>2, <3>3 DEF EnsureLabels
  <2>2. MemoryOK'
    BY <1>1, <1>8, <2>1 DEF EnsureLabels, MemoryOK, loop_vars
  <2>. QED BY <1>8, <2>1, <2>2 DEF EnsureLabels, Calling, Placed
<1>9. CASE SkipExisting
  <2>1. call' = call /\ call = NONE
    BY <1>9 DEF SkipExisting, Calling, httpVars
  <2>2. cur' = cur + 1 /\ pc' = "issue" /\ cur \in 1 .. Len(Source) /\ migrated' = migrated \cup {cur}
    BY <1>1, <1>9 DEF SkipExisting, NextIssue
  <2>3. MemoryOK'
    BY <1>1, <1>9, <2>2 DEF SkipExisting, MemoryOK, ModulesOK
  <2>. QED BY <1>9, <2>1, <2>2, <2>3 DEF SkipExisting, Calling, Placed
<1>10. CASE CreateIssue
  <2>1. call'.req = IssueRequest(cur) /\ pc = "issue" /\ cur \in Issues /\ cur \notin DOMAIN existing
    BY <1>10 DEF CreateIssue, Send
  <2>2. MemoryOK'
    BY <1>1, <1>10 DEF CreateIssue, MemoryOK, ModulesOK, loop_vars, attempt_vars
  <2>. QED BY <1>10, <2>1, <2>2 DEF CreateIssue, Calling, Placed, loop_vars, attempt_vars
<1>11. CASE PostComment
  <2>1. /\ call'.req = CommentRequest(cur, made, said + 1) /\ pc = "comments" /\ said < CommentsOf(cur)
        /\ CommentsOf(cur)' = CommentsOf(cur)
    BY <1>11 DEF PostComment, Send, CommentsOf, loop_vars
  <2>2. MemoryOK'
    BY <1>1, <1>11 DEF PostComment, MemoryOK, ModulesOK, loop_vars, attempt_vars
  <2>3. Placed'
    BY <1>1, <1>11, <2>1 DEF PostComment, Placed, loop_vars, attempt_vars
  <2>. QED BY <1>11, <2>1, <2>2, <2>3 DEF PostComment, Calling, loop_vars, attempt_vars
<1>12. CASE CloseIssue
  <2>1. /\ call'.req = CloseRequest(cur, made) /\ pc = "comments" /\ said = CommentsOf(cur)
        /\ CommentsOf(cur)' = CommentsOf(cur)
    BY <1>12 DEF CloseIssue, Send, CommentsOf, loop_vars
  <2>2. MemoryOK'
    BY <1>1, <1>12 DEF CloseIssue, MemoryOK, ModulesOK, loop_vars, attempt_vars
  <2>3. Placed'
    BY <1>1, <1>12, <2>1 DEF CloseIssue, Placed, loop_vars, attempt_vars
  <2>. QED BY <1>12, <2>1, <2>2, <2>3 DEF CloseIssue, Calling, loop_vars, attempt_vars
<1>13. CASE IssueDone
  <2>1. call' = call /\ call = NONE
    BY <1>13 DEF IssueDone, httpVars
  <2>2. cur' = cur + 1 /\ pc' = "issue" /\ cur \in 1 .. Len(Source) /\ migrated' = migrated \cup {cur}
    BY <1>1, <1>13 DEF IssueDone, NextIssue, Placed
  <2>3. MemoryOK'
    BY <1>1, <1>13, <2>2 DEF IssueDone, MemoryOK, ModulesOK
  <2>. QED BY <1>13, <2>1, <2>2, <2>3 DEF IssueDone, Calling, Placed
<1>14. CASE ReportIssues
  <2>1. Cardinality(migrated) \in Nat
    <3>1. migrated \subseteq 1 .. cur - 1 /\ 1 \in Int /\ cur - 1 \in Int
      BY <1>1 DEF MemoryOK
    <3>2. IsFiniteSet(1 .. cur - 1)
      BY <3>1, FS_Interval
    <3>. QED BY <3>1, <3>2, FS_Subset, FS_CardinalityType
  <2>2. ModulesOK' /\ pc' = "persist" /\ broken' \in BOOLEAN
    <3>1. Report("native_rebuild", TRUE, Len(Source), Cardinality(migrated)) \in ReportRow
      BY <1>1, <2>1, ReportsAre
    <3>. QED BY <1>14, <3>1, RecordIs DEF ReportIssues, MemoryOK
  <2>3. MemoryOK'
    BY <1>1, <1>14, <2>2 DEF ReportIssues, MemoryOK, loop_vars
  <2>. QED BY <1>14, <2>2, <2>3 DEF ReportIssues, Calling, Placed, httpVars
<1>15. CASE PersistArchives
  <2>1. /\ call' = NONE /\ archived' \in BOOLEAN
        /\ \/ FailAttempt
           \/ pc' = "verify" /\ Keep /\ UNCHANGED status
    BY <1>15 DEF PersistArchives, HasArchive, httpVars, MemoryOK
  <2>2. MemoryOK'
    <3>1. CASE FailAttempt
      BY <1>1, <1>15, <2>1, <3>1, ForgetIs DEF FailAttempt, PersistArchives, MemoryOK
    <3>2. CASE pc' = "verify" /\ Keep /\ UNCHANGED status
      BY <1>1, <1>15, <2>1, <3>2 DEF PersistArchives, MemoryOK, ModulesOK, Keep, loop_vars
    <3>. QED BY <2>1, <3>1, <3>2
  <2>. QED BY <1>15, <2>1, <2>2 DEF PersistArchives, Calling, Placed, FailAttempt
<1>16. CASE Verify
  <2>1. call' = call /\ call = NONE
    BY <1>16 DEF Verify, Calling, httpVars
  <2>2. MemoryOK'
    <3>1. CASE FailAttempt
      BY <1>1, <1>16, <3>1, ForgetIs DEF FailAttempt, Verify, MemoryOK
    <3>2. CASE status' = Verdict /\ pc' = "idle" /\ Keep
      <4>1. status' \in {"partial", "succeeded"}
        BY <3>2 DEF Verdict
      <4>. QED BY <1>1, <1>16, <3>2, <4>1 DEF Verify, MemoryOK, ModulesOK, Keep, loop_vars
    <3>. QED BY <1>16, <3>1, <3>2 DEF Verify
  <2>. QED BY <1>16, <2>1, <2>2 DEF Verify, Calling, Placed, FailAttempt
<1>. QED BY <1>2, <1>3, <1>4, <1>5, <1>6, <1>7, <1>8, <1>9, <1>10, <1>11, <1>12, <1>13, <1>14,
            <1>15, <1>16 DEF Local
\* The same after an answer is heard.
LEMMA HeardMemory ==
  ASSUME Base, Exchange, call' = NONE, NEW answer, Heard(answer),
         Served(call.req) \/ answer # "done"
  PROVE  MemoryOK' /\ Calling' /\ Placed'
<1>. USE DEF Base, fixed
<1>1. call # NONE /\ call.req \in Requests /\ UNCHANGED <<run, archived, status, fixed>>
  BY ExchangeIs
<1>2. /\ \A s : NumbersOf(s) \subseteq NumbersOf(s)'
      /\ Len(target.issues) \in Nat /\ Len(target'.issues) \in Nat
      /\ Len(target.issues) <= Len(target'.issues)
  BY NetStep, WorldGrows DEF Next, Program
<1>3. /\ Len(Source) \in Nat /\ Issues = 1 .. Len(Source) /\ \A s : CommentsOf(s) \in Nat
  BY SourceType DEF CommentsOf, MemoryOK
<1>4. Calling'
  BY DEF Calling
<1>5. made \in 0 .. Len(target'.issues) /\ \A s \in DOMAIN existing : existing[s] \in NumbersOf(s)'
  BY <1>2 DEF MemoryOK
<1>6. CASE pc = "metadata" /\ AfterMetadata(answer)
  <2>1. /\ ModulesOK' /\ pc' \in {"list", "persist"} /\ broken' \in BOOLEAN /\ UNCHANGED loop_vars
    <3>1. PICK report \in ReportRow : Record("metadata", report, "list")
      BY <1>6, ReportsAre DEF AfterMetadata
    <3>2. UNCHANGED loop_vars
      BY <1>6 DEF AfterMetadata
    <3>. QED BY <3>1, <3>2, RecordIs DEF MemoryOK
  <2>2. MemoryOK'
    BY <1>1, <1>3, <1>5, <2>1 DEF MemoryOK, loop_vars
  <2>3. Placed'
    BY <1>1, <1>6, <2>1 DEF Placed
  <2>. QED BY <1>4, <2>2, <2>3
<1>7. CASE pc = "labels" /\ AfterLabel(answer)
  <2>1. /\ ModulesOK' /\ pc' \in {"issue", "persist"} /\ broken' \in BOOLEAN /\ UNCHANGED loop_vars
    <3>1. CASE pc' = "issue" /\ UNCHANGED <<modules, broken>>
      BY <1>7, <3>1 DEF AfterLabel, MemoryOK, ModulesOK
    <3>2. CASE ModuleFails
      BY <1>7, <3>2, RecordIs, ReportsAre DEF AfterLabel, ModuleFails, MemoryOK
    <3>. QED BY <1>7, <3>1, <3>2 DEF AfterLabel
  <2>2. MemoryOK'
    BY <1>1, <1>3, <1>5, <2>1 DEF MemoryOK, loop_vars
  <2>3. Placed'
    BY <1>1, <1>7, <2>1 DEF Placed
  <2>. QED BY <1>4, <2>2, <2>3
<1>8. ASSUME cur \in Issues, IssueFails, pc \in {"issue", "comments"}
      PROVE  MemoryOK' /\ Placed'
  <2>1. /\ failed' = failed \cup {cur} /\ cur' = cur + 1 /\ pc' = "issue" /\ cur \in 1 .. Len(Source)
        /\ UNCHANGED <<loaded, existing, made, said, migrated, modules, broken>>
    BY <1>3, <1>8 DEF IssueFails, NextIssue
  <2>2. MemoryOK'
    BY <1>1, <1>3, <1>5, <2>1 DEF MemoryOK, ModulesOK
  <2>3. Placed'
    BY <1>1, <1>8, <2>1 DEF Placed
  <2>. QED BY <2>2, <2>3
<1>9. CASE /\ pc = "issue" /\ cur \in Issues /\ cur \notin DOMAIN existing
           /\ call.req = IssueRequest(cur) /\ AfterIssue(answer)
  <2>1. CASE /\ answer = "done" /\ made' = Len(target'.issues) /\ said' = 0 /\ pc' = "comments"
             /\ UNCHANGED <<loaded, existing, cur, migrated, failed, modules, broken>>
    <3>1. target' = Execute(call.req)
      BY <2>1 DEF Served
    <3>2. Len(target'.issues) = Len(target.issues) + 1 /\ Len(target.issues) + 1 \in NumbersOf(cur)'
      <4>1. target' = Execute(IssueRequest(cur))
        BY <1>9, <3>1
      <4>2. Len(target'.issues) = Len(target.issues) + 1
        BY <1>9, <4>1, IssueExecuted
      <4>3. \A q : NumbersOf(q)' = NumbersOf(q) \cup
              (IF call.req = IssueRequest(q) THEN {Len(target.issues) + 1} ELSE {})
        BY <1>1, <3>1, ExecuteAdds
      <4>. QED BY <1>9, <2>1, <4>2, <4>3
    <3>3. MemoryOK'
      BY <1>1, <1>2, <1>3, <1>5, <2>1 DEF MemoryOK, ModulesOK
    <3>4. Placed'
      <4>1. CommentsOf(cur)' = CommentsOf(cur)
        BY <2>1 DEF CommentsOf
      <4>. QED BY <1>1, <1>3, <1>9, <2>1, <3>2, <4>1 DEF Placed
    <3>. QED BY <1>4, <3>3, <3>4
  <2>. QED BY <1>4, <1>8, <1>9, <2>1 DEF AfterIssue
<1>10. CASE pc = "comments" /\ said < CommentsOf(cur) /\ AfterComment(answer)
  <2>0. cur \in Issues /\ cur \notin DOMAIN existing /\ made \in NumbersOf(cur)
    BY <1>10 DEF Placed
  <2>1. CASE /\ said' = said + 1
             /\ UNCHANGED <<loaded, existing, cur, made, migrated, failed, pc, modules, broken>>
    <3>1. MemoryOK'
      BY <1>1, <1>3, <1>5, <2>1 DEF MemoryOK, ModulesOK
    <3>2. Placed'
      <4>1. CommentsOf(cur)' = CommentsOf(cur) /\ CommentsOf(cur) \in Nat /\ said \in Nat
        BY <1>3, <2>1 DEF CommentsOf, MemoryOK
      <4>2. said' <= CommentsOf(cur)'
        BY <1>10, <2>1, <4>1
      <4>. QED BY <1>1, <1>2, <1>10, <2>0, <2>1, <4>2 DEF Placed
    <3>. QED BY <1>4, <3>1, <3>2
  <2>. QED BY <1>4, <1>8, <1>10, <2>0, <2>1 DEF AfterComment
<1>11. CASE pc = "comments" /\ AfterClose(answer)
  <2>0. cur \in Issues
    BY <1>11 DEF Placed
  <2>1. CASE /\ migrated' = migrated \cup {cur} /\ NextIssue
             /\ UNCHANGED <<loaded, existing, made, said, failed, modules, broken>>
    <3>1. cur' = cur + 1 /\ pc' = "issue" /\ cur \in 1 .. Len(Source)
      BY <1>3, <2>0, <2>1 DEF NextIssue
    <3>2. MemoryOK'
      BY <1>1, <1>3, <1>5, <2>1, <3>1 DEF MemoryOK, ModulesOK
    <3>3. Placed'
      BY <1>1, <1>11, <3>1 DEF Placed
    <3>. QED BY <1>4, <3>2, <3>3
  <2>. QED BY <1>4, <1>8, <1>11, <2>0, <2>1 DEF AfterClose
<1>. QED BY <1>1, <1>6, <1>7, <1>9, <1>10, <1>11, HeardIs

\* The first invariant: types, and what is asked from where.
LEMMA BaseStep ==
  ASSUME Base, [Next]_vars
  PROVE  Base'
<1>. USE DEF Base, fixed
<1>1. World /\ NetOK'
  BY NetStep
<1>2. /\ TargetOK' /\ \A s : NumbersOf(s) \subseteq NumbersOf(s)'
      /\ Len(target.issues) \in Nat /\ Len(target'.issues) \in Nat
      /\ Len(target.issues) <= Len(target'.issues)
  BY <1>1, WorldGrows
<1>3. made \in 0 .. Len(target'.issues) /\ \A s \in DOMAIN existing : existing[s] \in NumbersOf(s)'
  BY <1>2 DEF MemoryOK
<1>4. ASSUME UNCHANGED <<loop_vars, attempt_vars, fixed>>,
             call' = call \/ (call'.req = call.req /\ call # NONE)
      PROVE  MemoryOK' /\ Calling' /\ Placed'
  <2>1. MemoryOK'
    BY <1>2, <1>3, <1>4 DEF MemoryOK, ModulesOK, loop_vars, attempt_vars
  <2>2. CommentsOf(cur)' = CommentsOf(cur)
    BY <1>4 DEF CommentsOf, loop_vars
  <2>3. Placed'
    BY <1>2, <1>4, <2>2 DEF Placed, loop_vars, attempt_vars
  <2>4. Calling'
    BY <1>4, <2>2 DEF Calling, loop_vars, attempt_vars
  <2>. QED BY <2>1, <2>3, <2>4
<1>5. CASE Local
  BY <1>1, <1>2, <1>5, LocalMemory
<1>6. CASE UNCHANGED vars
  <2>1. UNCHANGED <<loop_vars, attempt_vars, fixed>> /\ call' = call
    BY <1>6 DEF vars, httpVars
  <2>2. MemoryOK' /\ Calling' /\ Placed'
    BY <1>4, <2>1
  <2>. QED BY <1>1, <1>2, <2>2
<1>7. CASE LateArrival
  <2>1. UNCHANGED <<loop_vars, attempt_vars, fixed>> /\ call' = call
    BY <1>7 DEF LateArrival, Arrive
  <2>2. MemoryOK' /\ Calling' /\ Placed'
    BY <1>4, <2>1
  <2>. QED BY <1>1, <1>2, <2>2
<1>8. CASE Exchange
  <2>1. CASE call' = NONE /\ \E answer \in Answers : Heard(answer) /\ (Served(call.req) \/ answer # "done")
    BY <1>1, <1>2, <1>8, <2>1, HeardMemory
  <2>2. CASE call'.req = call.req /\ call # NONE /\ UNCHANGED <<loop_vars, pc, modules, broken>>
    <3>1. UNCHANGED <<loop_vars, attempt_vars, fixed>>
      BY <1>8, <2>2, ExchangeIs DEF attempt_vars
    <3>. QED BY <1>1, <1>2, <1>4, <2>2, <3>1
  <2>. QED BY <1>8, <2>1, <2>2, ExchangeIs
<1>9. CASE Crash
  <2>1. call' = NONE /\ pc' = "idle" /\ Forget /\ UNCHANGED <<run, archived, status, fixed>>
    BY <1>9 DEF Crash, Abandon
  <2>2. Len(Source) \in Nat
    BY SourceType
  <2>3. MemoryOK'
    BY <1>2, <2>1, <2>2, ForgetIs DEF MemoryOK
  <2>. QED BY <1>1, <1>2, <2>1, <2>3 DEF Calling, Placed
<1>. QED BY <1>5, <1>6, <1>7, <1>8, <1>9 DEF Next, Program, Local

\* It holds at the start: nothing on the target, nothing lost, nothing asked.
LEMMA BaseInit == Init => Base
<1>. SUFFICES ASSUME Init PROVE Base
  OBVIOUS
<1>1. <<>> \in Seq(IssueRow) /\ <<>> \in Seq(ReportRow) /\ DOMAIN <<>> = {}
  BY EmptySeq
<1>2. TargetOK
  BY <1>1 DEF Init, TargetOK, TargetRow
<1>3. late = EmptyBag /\ call = NONE /\ losses = 0
  BY DEF Init, HttpInit
<1>4. NetOK
  <2>1. late \in [DOMAIN late -> Nat \ {0}] /\ DOMAIN late = {}
    BY <1>3 DEF EmptyBag, SetToBag
  <2>. QED BY <1>3, <2>1, TransportAssumption DEF NetOK
<1>5. Len(target.issues) \in Nat /\ Len(Source) \in Nat
  BY <1>2, LenProperties, SourceType DEF TargetOK, TargetRow
<1>6. ModulesOK
  <2>1. <<>> \in [1 .. Len(<<>>) -> ReportRow] /\ Len(<<>>) = 0
    BY <1>1, LenProperties, EmptySeq
  <2>2. 1 .. 0 = {}
    OBVIOUS
  <2>. QED BY <1>1, <2>1, <2>2 DEF Init, ModulesOK
<1>7. MemoryOK
  <2>1. /\ DOMAIN existing = {} /\ loaded = {} /\ migrated = {} /\ failed = {}
        /\ cur = 1 /\ made = 0 /\ said = 0 /\ run = 0 /\ route \in Routes /\ listed \in BOOLEAN
        /\ pc = "idle" /\ status = "planned" /\ broken = FALSE /\ archived = FALSE
    BY <1>1 DEF Init
  <2>2. 0 \in 0 .. MaxRuns /\ 1 \in 1 .. Len(Source) + 1 /\ 0 \in 0 .. Len(target.issues)
    BY <1>5, SourceAssumption
  <2>. QED BY <1>6, <2>1, <2>2 DEF MemoryOK
<1>8. Calling /\ Placed
  BY <1>3 DEF Init, Calling, Placed
<1>. QED BY <1>2, <1>4, <1>7, <1>8 DEF Base

\* Hence the first invariant holds always.
LEMMA BaseInv == Spec => []Base
<1>. QED BY BaseInit, BaseStep, PTL DEF Spec

\* Every variable keeps its type; a comment or a close is only ever sent to
\* a copy of its own issue, whatever was lost or came late before.
THEOREM TypeCorrect == Spec => []TypeOK
<1>1. Base => TypeOK
  <2>. SUFFICES ASSUME Base PROVE TypeOK
    OBVIOUS
  <2>. USE DEF Base
  <2>1. /\ route \in Routes /\ listed \in BOOLEAN
        /\ call = NONE \/ (call.req \in Requests /\ call.tried \in 0 .. MaxAttempts - 1)
        /\ BagToSet(late) \subseteq Requests /\ losses \in 0 .. MaxLost
    BY DEF NetOK, MemoryOK, BagToSet
  <2>2. /\ \A n \in DOMAIN target.issues :
              /\ target.issues[n].src \in Issues
              /\ \A i \in DOMAIN target.issues[n].comments :
                    target.issues[n].comments[i] \in 1 .. Source[target.issues[n].src].comments
              /\ target.issues[n].open \in BOOLEAN
        /\ target.labels \in Nat /\ target.described \in BOOLEAN
        /\ lost \in [Objects -> Nat]
    <3>1. target.issues \in Seq(IssueRow) /\ target.labels \in Nat /\ target.described \in BOOLEAN
      BY DEF TargetOK, TargetRow
    <3>2. \A n \in DOMAIN target.issues : target.issues[n] \in IssueRow
      BY <3>1
    <3>. QED BY <3>1, <3>2 DEF TargetOK, IssueRow
  <2>3. \A m \in DOMAIN modules : modules[m].fidelity \in Fidelities
    BY DEF MemoryOK, ModulesOK, ReportRow
  <2>4. /\ pc \in {"idle", "metadata", "list", "scan", "labels", "issue", "comments", "persist", "verify"}
        /\ run \in 0 .. MaxRuns
        /\ loaded \subseteq Issues /\ DOMAIN existing \subseteq Issues
        /\ \A s \in DOMAIN existing : existing[s] \in NumbersOf(s)
        /\ cur \in 1 .. Len(Source) + 1 /\ made \in 0 .. Len(target.issues)
        /\ migrated \cup failed \subseteq 1 .. cur - 1 /\ migrated \cap failed = {}
        /\ DOMAIN modules \subseteq {"metadata", "issues"}
        /\ broken \in BOOLEAN /\ archived \in BOOLEAN
        /\ status \in {"planned", "running", "retryable_failed", "partial", "succeeded"}
    BY DEF MemoryOK, ModulesOK
  <2>. QED BY <2>1, <2>2, <2>3, <2>4 DEF TypeOK
<1>. QED BY <1>1, BaseInv, PTL
-----------------------------------------------------------------------------
(***************************************************************************)
(* No surplus: what is on the target or on its way, less what is charged   *)
(* to lost answers, is at most one issue, one comment for each copy of its *)
(* issue, one label -- and none yet of what the worker is still to send.   *)
(***************************************************************************)

\* Still to be created: the scan has not found it, the loop not reached it.
Due(s) ==
    /\ s \notin DOMAIN existing
    /\ \/ pc \in {"labels", "issue"} /\ s >= cur
       \/ pc = "comments" /\ s > cur

\* Still to be posted to the copy just made.
Owed(s, k) == pc = "comments" /\ cur = s /\ said < k

LabelAsked == call # NONE /\ call.req = LabelRequest

IssuesCounted ==
    \A s \in Issues :
        /\ IssueSurplus(s) <= 1
        /\ Due(s) => IssueSurplus(s) <= 0
        /\ Waiting(IssueRequest(s)) <= lost[<<s, 0>>]

CommentsCounted ==
    \A s \in Issues : \A k \in 1 .. Source[s].comments :
        /\ Finite(s, k)
        /\ CommentSurplus(s, k) <= Cardinality(NumbersOf(s))
        /\ Owed(s, k) => CommentSurplus(s, k) + 1 <= Cardinality(NumbersOf(s))

LabelsCounted ==
    /\ listed => LabelSurplus <= 1 /\ (LabelAsked => LabelSurplus <= 0)
    /\ Waiting(LabelRequest) <= lost[<<0, 0>>]

Counted == IssuesCounted /\ CommentsCounted /\ LabelsCounted

\* A step moves by the request r, or nothing moves.
Step(r) == NetMoves(r) \/ (Quiet /\ r = MetadataRequest)

\* While nothing moves no count does.
LEMMA QuietCounts ==
  ASSUME Quiet
  PROVE  /\ \A s : NumbersOf(s)' = NumbersOf(s) /\ IssueSurplus(s)' = IssueSurplus(s)
         /\ \A s, k : CommentSurplus(s, k)' = CommentSurplus(s, k) /\ (Finite(s, k)' <=> Finite(s, k))
         /\ LabelSurplus' = LabelSurplus
         /\ \A q : Waiting(q)' = Waiting(q)
<1>1. /\ target' = target /\ late' = late /\ lost' = lost
      /\ (\A s : NumbersOf(s)' = NumbersOf(s)) /\ (\A n, k : PlacedAt(n, k)' = PlacedAt(n, k))
  BY TargetStays DEF Quiet
<1>2. \A q : Waiting(q)' = Waiting(q)
  BY <1>1 DEF Waiting, CountIn
<1>3. \A s, k : OnTarget(s, k)' = OnTarget(s, k)
  BY <1>1 DEF OnTarget
<1>4. \A s, k : InFlight(s, k)' = InFlight(s, k)
  BY <1>1, <1>2 DEF InFlight
<1>5. \A s : IssueSurplus(s)' = IssueSurplus(s)
  BY <1>1, <1>2 DEF IssueSurplus
<1>6. \A s, k : CommentSurplus(s, k)' = CommentSurplus(s, k) /\ (Finite(s, k)' <=> Finite(s, k))
  BY <1>1, <1>3, <1>4 DEF CommentSurplus, Finite
<1>7. LabelSurplus' = LabelSurplus
  BY <1>1, <1>2 DEF LabelSurplus
<1>. QED BY <1>1, <1>2, <1>5, <1>6, <1>7

\* What a step adds to the count of an issue.
LEMMA IssueCountStep ==
  ASSUME TargetOK, NetOK, NEW r \in Requests, Step(r), NEW s \in Issues
  PROVE  /\ IssueSurplus(s) \in Int
         /\ IssueSurplus(s)' = IssueSurplus(s) + (IF Served(r) /\ r = IssueRequest(s) THEN 1 ELSE 0)
         /\ Waiting(IssueRequest(s)) <= lost[<<s, 0>>] => (Waiting(IssueRequest(s)) <= lost[<<s, 0>>])'
         /\ Cardinality(NumbersOf(s)) \in Nat /\ Cardinality(NumbersOf(s)') \in Nat
         /\ Cardinality(NumbersOf(s)') >=
              Cardinality(NumbersOf(s)) + (IF Served(r) /\ r = IssueRequest(s) THEN 1 ELSE 0)
<1>1. /\ IssueSurplus(s) \in Int
      /\ Cardinality(NumbersOf(s)) \in Nat /\ IsFiniteSet(NumbersOf(s))
  BY IssueSurplusMoves, NumbersFinite
<1>2. CASE Quiet /\ r = MetadataRequest
  <2>1. r # IssueRequest(s)
    BY <1>2, RequestsDiffer
  <2>2. (Waiting(IssueRequest(s)) <= lost[<<s, 0>>])' <=> Waiting(IssueRequest(s)) <= lost[<<s, 0>>]
    BY <1>2, QuietCounts DEF Quiet
  <2>3. NumbersOf(s)' = NumbersOf(s) /\ IssueSurplus(s)' = IssueSurplus(s)
    BY <1>2, QuietCounts
  <2>. QED BY <1>1, <2>1, <2>2, <2>3
<1>3. CASE NetMoves(r)
  <2>1. IssueSurplus(s)' = IssueSurplus(s) + (IF Served(r) /\ r = IssueRequest(s) THEN 1 ELSE 0)
    <3>1. CASE Served(r)
      BY <3>1, IssueSurplusMoves
    <3>2. CASE ~ Served(r)
      <4>1. IssueSurplus(s)' = IssueSurplus(s)
        BY <1>3, <3>2, IssueSurplusMoves DEF NetMoves
      <4>. QED BY <1>1, <3>2, <4>1
    <3>. QED BY <3>1, <3>2
  <2>2. Waiting(IssueRequest(s)) <= lost[<<s, 0>>] => (Waiting(IssueRequest(s)) <= lost[<<s, 0>>])'
    BY <1>3, IssueSurplusMoves
  <2>3. CASE Served(r) /\ r = IssueRequest(s)
    <3>1. /\ Len(target.issues) + 1 \notin NumbersOf(s)
          /\ NumbersOf(s)' = NumbersOf(s) \cup
               (IF r = IssueRequest(s) THEN {Len(target.issues) + 1} ELSE {})
      BY <2>3, ExecuteAdds DEF Served
    <3>2. Cardinality(NumbersOf(s)') = Cardinality(NumbersOf(s)) + 1
      BY <1>1, <2>3, <3>1, FS_AddElement
    <3>. QED BY <1>1, <2>1, <2>2, <2>3, <3>2
  <2>4. CASE ~ (Served(r) /\ r = IssueRequest(s))
    <3>1. NumbersOf(s) \subseteq NumbersOf(s)' /\ IsFiniteSet(NumbersOf(s)')
      <4>1. TargetOK' /\ \A q : NumbersOf(q) \subseteq NumbersOf(q)'
        BY <1>3, TargetGrows
      <4>3. DOMAIN target'.issues = 1 .. Len(target'.issues) /\ Len(target'.issues) \in Nat
        BY <4>1, LenProperties DEF TargetOK, TargetRow
      <4>4. IsFiniteSet(1 .. Len(target'.issues)) /\ NumbersOf(s)' \subseteq 1 .. Len(target'.issues)
        BY <4>3, FS_Interval DEF NumbersOf
      <4>. QED BY <4>1, <4>4, FS_Subset
    <3>2. Cardinality(NumbersOf(s)) <= Cardinality(NumbersOf(s)') /\ Cardinality(NumbersOf(s)') \in Nat
      BY <3>1, FS_Subset, FS_CardinalityType
    <3>. QED BY <1>1, <2>1, <2>2, <2>4, <3>2
  <2>. QED BY <2>3, <2>4
<1>. QED BY <1>2, <1>3 DEF Step

\* What a step adds to the count of a comment.
LEMMA CommentCountStep ==
  ASSUME TargetOK, NetOK, NEW r \in Requests, Step(r), NEW s \in Issues,
         NEW k \in 1 .. Source[s].comments, Finite(s, k)
  PROVE  /\ CommentSurplus(s, k) \in Int /\ Finite(s, k)'
         /\ CommentSurplus(s, k)' = CommentSurplus(s, k) +
              (IF Served(r) /\ \E n \in NumbersOf(s) : r = CommentRequest(s, n, k) THEN 1 ELSE 0)
<1>1. CASE Quiet /\ r = MetadataRequest
  <2>1. \A n : r # CommentRequest(s, n, k)
    BY <1>1, RequestsDiffer
  <2>2. CommentSurplus(s, k) \in Int
    <3>1. lost[<<s, k>>] \in Nat
      BY ObjectsAre DEF TargetOK
    <3>. QED BY <3>1, FS_CardinalityType DEF Finite, CommentSurplus
  <2>. QED BY <1>1, <2>1, <2>2, QuietCounts
<1>2. CASE NetMoves(r)
  <2>1. CASE Served(r)
    BY <1>2, <2>1, CommentSurplusMoves
  <2>2. CASE ~ Served(r)
    <3>1. /\ CommentSurplus(s, k) \in Int /\ Finite(s, k)'
          /\ CommentSurplus(s, k)' = CommentSurplus(s, k)
      BY <1>2, <2>2, CommentSurplusMoves DEF NetMoves
    <3>. QED BY <2>2, <3>1
  <2>. QED BY <2>1, <2>2
<1>. QED BY <1>1, <1>2 DEF Step

\* What a step adds to the count of the label.
LEMMA LabelCountStep ==
  ASSUME TargetOK, NetOK, NEW r \in Requests, Step(r)
  PROVE  /\ LabelSurplus \in Int
         /\ LabelSurplus' = LabelSurplus + (IF Served(r) /\ r = LabelRequest THEN 1 ELSE 0)
         /\ Waiting(LabelRequest) <= lost[<<0, 0>>] => (Waiting(LabelRequest) <= lost[<<0, 0>>])'
<1>1. LabelSurplus \in Int
  BY LabelSurplusMoves
<1>2. CASE Quiet /\ r = MetadataRequest
  <2>1. r # LabelRequest
    BY <1>2, RequestsDiffer
  <2>2. (Waiting(LabelRequest) <= lost[<<0, 0>>])' <=> Waiting(LabelRequest) <= lost[<<0, 0>>]
    BY <1>2, QuietCounts DEF Quiet
  <2>3. LabelSurplus' = LabelSurplus
    BY <1>2, QuietCounts
  <2>. QED BY <1>1, <2>1, <2>2, <2>3
<1>3. CASE NetMoves(r)
  <2>1. LabelSurplus' = LabelSurplus + (IF Served(r) /\ r = LabelRequest THEN 1 ELSE 0)
    BY <1>1, <1>3, LabelSurplusMoves DEF NetMoves
  <2>2. Waiting(LabelRequest) <= lost[<<0, 0>>] => (Waiting(LabelRequest) <= lost[<<0, 0>>])'
    BY <1>3, LabelSurplusMoves
  <2>. QED BY <1>1, <2>1, <2>2
<1>. QED BY <1>2, <1>3 DEF Step
\* The counts are kept by a step which creates only what is due, owed or
\* asked, and by which nothing becomes due that may be there already.
LEMMA CountedStep ==
  ASSUME TargetOK, NetOK, Counted, NEW r \in Requests, Step(r),
         \A s \in Issues : Due(s)' => Due(s) \/ NumbersOf(s) = {},
         \A s \in Issues : Served(r) /\ r = IssueRequest(s) => Due(s) /\ ~ Due(s)',
         \A s \in Issues : \A k \in 1 .. Source[s].comments :
            Owed(s, k)' => Owed(s, k) \/ (Served(r) /\ r = IssueRequest(s)),
         \A s \in Issues : \A k \in 1 .. Source[s].comments : \A n \in NumbersOf(s) :
            Served(r) /\ r = CommentRequest(s, n, k) => Owed(s, k) /\ ~ Owed(s, k)',
         listed' = listed, LabelAsked' => LabelAsked \/ target.labels = 0 \/ ~ listed,
         Served(r) /\ r = LabelRequest => LabelAsked /\ ~ LabelAsked'
  PROVE  Counted'
<1>1. IssuesCounted'
  <2>1. ASSUME NEW s \in Issues
        PROVE  /\ IssueSurplus(s)' <= 1
               /\ Due(s)' => IssueSurplus(s)' <= 0
               /\ (Waiting(IssueRequest(s)) <= lost[<<s, 0>>])'
    <3>1. /\ IssueSurplus(s) \in Int
          /\ IssueSurplus(s)' = IssueSurplus(s) + (IF Served(r) /\ r = IssueRequest(s) THEN 1 ELSE 0)
          /\ Waiting(IssueRequest(s)) <= lost[<<s, 0>>] => (Waiting(IssueRequest(s)) <= lost[<<s, 0>>])'
      BY IssueCountStep
    <3>2. /\ IssueSurplus(s) <= 1
          /\ Due(s) => IssueSurplus(s) <= 0
          /\ Waiting(IssueRequest(s)) <= lost[<<s, 0>>]
      BY DEF Counted, IssuesCounted
    <3>3. NumbersOf(s) = {} => IssueSurplus(s) <= 0
      <4>1. lost[<<s, 0>>] \in Nat /\ Waiting(IssueRequest(s)) \in Nat
        BY ObjectsAre, WaitingMoves DEF TargetOK
      <4>2. Cardinality({}) = 0
        BY FS_EmptySet
      <4>. QED BY <3>2, <4>1, <4>2 DEF IssueSurplus
    <3>4. CASE Served(r) /\ r = IssueRequest(s)
      BY <3>1, <3>2, <3>4
    <3>5. CASE ~ (Served(r) /\ r = IssueRequest(s))
      <4>1. IssueSurplus(s)' = IssueSurplus(s)
        BY <3>1, <3>5
      <4>2. Due(s)' => IssueSurplus(s) <= 0
        BY <3>2, <3>3
      <4>. QED BY <3>1, <3>2, <4>1, <4>2
    <3>. QED BY <3>4, <3>5
  <2>. QED BY <2>1 DEF IssuesCounted
<1>2. CommentsCounted'
  <2>1. ASSUME NEW s \in Issues, NEW k \in 1 .. Source[s].comments
        PROVE  /\ Finite(s, k)'
               /\ CommentSurplus(s, k)' <= Cardinality(NumbersOf(s)')
               /\ Owed(s, k)' => CommentSurplus(s, k)' + 1 <= Cardinality(NumbersOf(s)')
    <3>. DEFINE more == IF Served(r) /\ r = IssueRequest(s) THEN 1 ELSE 0
                said1 == IF Served(r) /\ \E n \in NumbersOf(s) : r = CommentRequest(s, n, k) THEN 1 ELSE 0
    <3>1. /\ Finite(s, k) /\ CommentSurplus(s, k) <= Cardinality(NumbersOf(s))
          /\ Owed(s, k) => CommentSurplus(s, k) + 1 <= Cardinality(NumbersOf(s))
      BY DEF Counted, CommentsCounted
    <3>2. /\ CommentSurplus(s, k) \in Int /\ Finite(s, k)'
          /\ CommentSurplus(s, k)' = CommentSurplus(s, k) + said1
      BY <3>1, CommentCountStep
    <3>3. /\ Cardinality(NumbersOf(s)) \in Nat /\ Cardinality(NumbersOf(s)') \in Nat
          /\ Cardinality(NumbersOf(s)') >= Cardinality(NumbersOf(s)) + more
      BY IssueCountStep
    <3>4. said1 = 1 => Owed(s, k) /\ ~ Owed(s, k)'
      OBVIOUS
    <3>5. Owed(s, k)' => Owed(s, k) \/ more = 1
      OBVIOUS
    <3>6. said1 \in {0, 1} /\ more \in {0, 1}
      OBVIOUS
    <3>. HIDE DEF more, said1
    <3>. QED BY <3>1, <3>2, <3>3, <3>4, <3>5, <3>6
  <2>. QED BY <2>1 DEF CommentsCounted
<1>3. LabelsCounted'
  <2>1. /\ LabelSurplus \in Int
        /\ LabelSurplus' = LabelSurplus + (IF Served(r) /\ r = LabelRequest THEN 1 ELSE 0)
        /\ Waiting(LabelRequest) <= lost[<<0, 0>>] => (Waiting(LabelRequest) <= lost[<<0, 0>>])'
    BY LabelCountStep
  <2>2. /\ listed => LabelSurplus <= 1 /\ (LabelAsked => LabelSurplus <= 0)
        /\ Waiting(LabelRequest) <= lost[<<0, 0>>]
    BY DEF Counted, LabelsCounted
  <2>3. target.labels = 0 => LabelSurplus <= 0
    <3>1. lost[<<0, 0>>] \in Nat /\ Waiting(LabelRequest) \in Nat
      BY ObjectsAre, WaitingMoves DEF TargetOK
    <3>. QED BY <2>2, <3>1 DEF LabelSurplus
  <2>4. CASE Served(r) /\ r = LabelRequest
    BY <2>1, <2>2, <2>4 DEF LabelsCounted
  <2>5. CASE ~ (Served(r) /\ r = LabelRequest)
    <3>1. LabelSurplus' = LabelSurplus
      BY <2>1, <2>5
    <3>2. listed /\ LabelAsked' => LabelSurplus <= 0
      BY <2>2, <2>3
    <3>. QED BY <2>1, <2>2, <3>1, <3>2 DEF LabelsCounted
  <2>. QED BY <2>4, <2>5
<1>. QED BY <1>1, <1>2, <1>3 DEF Counted
Creates(r) ==
    \/ r = LabelRequest
    \/ \E s \in Issues : r = IssueRequest(s)
    \/ \E s \in Issues : \E k \in 1 .. Source[s].comments : \E n \in NumbersOf(s) : r = CommentRequest(s, n, k)

\* A step that charges or discharges a creation is not one that is heard of.
LEMMA NotServed ==
  ASSUME TargetOK, NetOK, NEW r \in Requests, Unheard(r) \/ Delayed(r) \/ Arrived(r), Creates(r)
  PROVE  ~ Served(r)
<1>. SUFFICES ASSUME Served(r) PROVE FALSE
  OBVIOUS
<1>1. late' = late /\ lost' = lost
  BY DEF Served
<1>2. Waiting(r) \in Nat /\ Waiting(r)' = Waiting(r)
  BY <1>1, WaitingMoves
<1>3. CASE Delayed(r)
  <2>1. Waiting(r)' = Waiting(r) + 1
    BY <1>3, WaitingMoves
  <2>. QED BY <1>2, <2>1
<1>4. CASE Arrived(r)
  <2>1. Waiting(r)' = Waiting(r) - 1
    BY <1>4, WaitingMoves
  <2>. QED BY <1>2, <2>1
<1>5. CASE Unheard(r)
  <2>1. lost' = LostOne(r) /\ \A o \in Objects : lost'[o] \in Nat /\ lost[o] \in Nat
    BY <1>1, <1>5 DEF Unheard, TargetOK
  <2>2. CASE r = LabelRequest
    <3>1. lost'[<<0, 0>>] = lost[<<0, 0>>] + 1
      BY <2>1, <2>2, LedgerGrows
    <3>2. lost[<<0, 0>>] \in Nat /\ lost'[<<0, 0>>] = lost[<<0, 0>>]
      BY <1>1, <2>1, ObjectsAre
    <3>. QED BY <3>1, <3>2
  <2>3. CASE \E s \in Issues : r = IssueRequest(s)
    <3>1. PICK s \in Issues : r = IssueRequest(s)
      BY <2>3
    <3>2. lost'[<<s, 0>>] = lost[<<s, 0>>] + 1
      BY <2>1, <3>1, LedgerGrows
    <3>3. lost[<<s, 0>>] \in Nat /\ lost'[<<s, 0>>] = lost[<<s, 0>>]
      BY <1>1, <2>1, ObjectsAre
    <3>. QED BY <3>2, <3>3
  <2>4. CASE \E s \in Issues : \E k \in 1 .. Source[s].comments : \E n \in NumbersOf(s) : r = CommentRequest(s, n, k)
    <3>0. PICK s \in Issues : \E k \in 1 .. Source[s].comments : \E n \in NumbersOf(s) : r = CommentRequest(s, n, k)
      BY <2>4
    <3>1. PICK k \in 1 .. Source[s].comments : \E n \in NumbersOf(s) : r = CommentRequest(s, n, k)
      BY <3>0
    <3>2. lost'[<<s, k>>] = lost[<<s, k>>] + 1
      BY <2>1, <3>1, LedgerGrows
    <3>3. lost[<<s, k>>] \in Nat /\ lost'[<<s, k>>] = lost[<<s, k>>]
      BY <1>1, <2>1, ObjectsAre
    <3>. QED BY <3>2, <3>3
  <2>. QED BY <2>2, <2>3, <2>4 DEF Creates
<1>. QED BY <1>3, <1>4, <1>5

\* A step nobody hears of keeps the counts.
LEMMA CountedUnheard ==
  ASSUME TargetOK, NetOK, Counted,
         Quiet \/ \E r \in Requests : Unheard(r) \/ Delayed(r) \/ Arrived(r),
         \A s \in Issues : Due(s)' => Due(s) \/ NumbersOf(s) = {},
         \A s \in Issues : \A k \in 1 .. Source[s].comments : Owed(s, k)' => Owed(s, k),
         listed' = listed, LabelAsked' => LabelAsked \/ target.labels = 0 \/ ~ listed
  PROVE  Counted'
<1>1. PICK r \in Requests : Step(r) /\ ~ (Served(r) /\ Creates(r))
  <2>1. CASE Quiet
    <3>1. MetadataRequest \in Requests /\ ~ Creates(MetadataRequest)
      BY RequestsDiffer DEF Requests, Creates
    <3>. QED BY <2>1, <3>1 DEF Step
  <2>. QED BY <2>1, NotServed DEF Step, NetMoves
<1>. QED BY <1>1, CountedStep DEF Creates

\* What is due after a step of the worker itself.
LEMMA LocalDues ==
  ASSUME Base, Local
  PROVE  /\ \A s \in Issues : Due(s)' => Due(s) \/ NumbersOf(s) = {}
         /\ \A s \in Issues : \A k \in 1 .. Source[s].comments : Owed(s, k)' => Owed(s, k)
         /\ LabelAsked' => LabelAsked \/ target.labels = 0 \/ ~ listed
<1>. USE DEF Base
<1>1. \A s \in Issues : s \in Int /\ cur \in Int
  BY SourceType DEF MemoryOK
<1>2. CASE pc' \notin {"labels", "issue", "comments"}
  <2>1. (\A s : ~ Due(s)') /\ (\A s, k : ~ Owed(s, k)')
    BY <1>2 DEF Due, Owed
  <2>2. LabelAsked' => LabelAsked
    <3>1. MemoryOK' /\ Calling'
      BY LocalMemory
    <3>. QED BY <1>2, <3>1, RequestsDiffer DEF Calling, LabelAsked
  <2>. QED BY <2>1, <2>2
<1>3. CASE ScanTarget
  <2>1. CASE pc' = "labels" /\ existing' = ExistingMigrations
    <3>1. \A s \in Issues : Due(s)' => NumbersOf(s) = {}
      BY <2>1, ScanFindsCopies DEF Due
    <3>2. (\A s, k : ~ Owed(s, k)') /\ call' = call
      BY <1>3, <2>1 DEF Owed, ScanTarget, httpVars
    <3>. QED BY <3>1, <3>2 DEF LabelAsked
  <2>. QED BY <1>2, <1>3, <2>1 DEF ScanTarget, ModuleFails, Record
<1>4. CASE EnsureLabels
  <2>1. /\ pc = "labels" /\ cur' = cur /\ existing' = existing
        /\ call' = call \/ target.labels = 0 \/ ~ listed
    BY <1>4 DEF EnsureLabels, LabelMissing, loop_vars, httpVars
  <2>2. CASE pc' \in {"labels", "issue"}
    BY <2>1, <2>2 DEF Due, Owed, LabelAsked
  <2>3. pc' \in {"labels", "issue", "persist"}
    BY <1>4 DEF EnsureLabels, ModuleFails, Record
  <2>. QED BY <1>2, <2>2, <2>3
<1>5. CASE SkipExisting \/ IssueDone
  <2>1. /\ pc' = "issue" /\ cur' = cur + 1 /\ existing' = existing /\ call' = call
        /\ pc \in {"issue", "comments"}
    BY <1>5 DEF SkipExisting, IssueDone, NextIssue, httpVars
  <2>2. \A s \in Issues : Due(s)' => Due(s)
    BY <1>1, <2>1 DEF Due
  <2>. QED BY <2>1, <2>2 DEF Owed, LabelAsked
<1>6. CASE CreateIssue \/ PostComment \/ CloseIssue
  <2>1. /\ pc' = pc /\ cur' = cur /\ existing' = existing /\ said' = said
        /\ pc \in {"issue", "comments"}
    BY <1>6 DEF CreateIssue, PostComment, CloseIssue, loop_vars, attempt_vars
  <2>2. LabelAsked' => LabelAsked
    <3>1. Calling'
      BY LocalMemory
    <3>. QED BY <2>1, <3>1, RequestsDiffer DEF Calling, LabelAsked
  <2>. QED BY <2>1, <2>2 DEF Due, Owed
<1>7. CASE BeginAttempt \/ ReadMetadata \/ StopBeforeStage \/ ArchiveOnly \/ ListSource
             \/ ReportIssues \/ PersistArchives \/ Verify
  <2>1. pc' \notin {"labels", "issue", "comments"}
    BY <1>7 DEF BeginAttempt, ReadMetadata, StopBeforeStage, ArchiveOnly, ListSource, ReportIssues,
                PersistArchives, Verify, Record, ModuleFails, FailAttempt
  <2>. QED BY <1>2, <2>1
<1>. QED BY <1>3, <1>4, <1>5, <1>6, <1>7 DEF Local
\* What is due after an answer is heard: the thing it answers for no longer.
LEMMA HeardDues ==
  ASSUME Base, call # NONE, call' = NONE, NEW answer, Heard(answer)
  PROVE  /\ \A s \in Issues : Due(s)' => Due(s)
         /\ \A s : \A k \in Int : Owed(s, k)' => Owed(s, k) \/ (answer = "done" /\ call.req = IssueRequest(s))
         /\ \A s \in Issues : call.req = IssueRequest(s) => Due(s) /\ ~ Due(s)'
         /\ \A s, n, k : call.req = CommentRequest(s, n, k) => Owed(s, k) /\ ~ Owed(s, k)'
         /\ call.req = LabelRequest => LabelAsked
         /\ ~ LabelAsked'
<1>. USE DEF Base
<1>1. (\A s \in Issues : s \in Int) /\ cur \in Int /\ said \in Nat
  BY SourceType DEF MemoryOK
<1>2. ~ LabelAsked' /\ (call.req = LabelRequest => LabelAsked)
  BY DEF LabelAsked
<1>3. ASSUME pc' \notin {"labels", "issue", "comments"}
      PROVE  (\A s : ~ Due(s)') /\ (\A s, k : ~ Owed(s, k)')
  BY <1>3 DEF Due, Owed
<1>4. ASSUME cur' = cur + 1, pc' = "issue", pc \in {"issue", "comments"}, existing' = existing
      PROVE  /\ \A s \in Issues : (Due(s)' => Due(s)) /\ (s = cur => ~ Due(s)')
             /\ \A s, k : ~ Owed(s, k)'
  BY <1>1, <1>4 DEF Due, Owed
<1>5. IssueFails => cur' = cur + 1 /\ pc' = "issue" /\ existing' = existing
  BY DEF IssueFails, NextIssue
<1>6. CASE pc = "metadata" /\ call.req = MetadataRequest /\ AfterMetadata(answer)
  <2>1. pc' \notin {"labels", "issue", "comments"}
    BY <1>6 DEF AfterMetadata, Record
  <2>. QED BY <1>2, <1>3, <1>6, <2>1, RequestsDiffer
<1>7. CASE pc = "labels" /\ call.req = LabelRequest /\ AfterLabel(answer)
  <2>1. /\ \/ pc' = "issue"
           \/ pc' \notin {"labels", "issue", "comments"}
        /\ cur' = cur /\ existing' = existing
    BY <1>7 DEF AfterLabel, ModuleFails, Record, loop_vars
  <2>2. (\A s \in Issues : Due(s)' => Due(s)) /\ (\A s, k : ~ Owed(s, k)')
    BY <1>7, <2>1 DEF Due, Owed
  <2>. QED BY <1>2, <1>7, <2>2, RequestsDiffer
<1>8. CASE /\ pc = "issue" /\ cur \in Issues /\ cur \notin DOMAIN existing
           /\ call.req = IssueRequest(cur) /\ AfterIssue(answer)
  <2>1. Due(cur) /\ \A s : call.req = IssueRequest(s) <=> s = cur
    BY <1>1, <1>8, RequestsDiffer DEF Due
  <2>2. \A s, n, k : call.req # CommentRequest(s, n, k)
    BY <1>8, RequestsDiffer
  <2>3. CASE answer = "done" /\ pc' = "comments" /\ cur' = cur /\ existing' = existing
    <3>1. \A s \in Issues : (Due(s)' => Due(s)) /\ (s = cur => ~ Due(s)')
      BY <1>1, <1>8, <2>3 DEF Due
    <3>2. \A s, k : Owed(s, k)' => answer = "done" /\ call.req = IssueRequest(s)
      BY <2>1, <2>3 DEF Owed
    <3>. QED BY <1>2, <2>1, <2>2, <3>1, <3>2
  <2>4. CASE IssueFails
    BY <1>2, <1>4, <1>5, <1>8, <2>1, <2>2, <2>4
  <2>. QED BY <1>8, <2>3, <2>4 DEF AfterIssue
<1>9. CASE /\ pc = "comments" /\ said < CommentsOf(cur)
           /\ call.req = CommentRequest(cur, made, said + 1) /\ AfterComment(answer)
  <2>1. Owed(cur, said + 1) /\ \A s, n, k : call.req = CommentRequest(s, n, k) => s = cur /\ k = said + 1
    BY <1>1, <1>9, RequestsDiffer DEF Owed
  <2>2. \A s : call.req # IssueRequest(s)
    BY <1>9, RequestsDiffer
  <2>3. CASE said' = said + 1 /\ pc' = pc /\ cur' = cur /\ existing' = existing
    <3>1. \A s \in Issues : Due(s)' => Due(s)
      BY <2>3 DEF Due
    <3>2. ASSUME NEW s, NEW n, NEW k, call.req = CommentRequest(s, n, k)
          PROVE  Owed(s, k) /\ ~ Owed(s, k)'
      <4>1. s = cur /\ k = said + 1
        BY <2>1, <3>2
      <4>. QED BY <1>1, <2>1, <2>3, <4>1 DEF Owed
    <3>3. ASSUME NEW s, NEW k \in Int, Owed(s, k)' PROVE Owed(s, k)
      BY <1>1, <1>9, <2>3, <3>3 DEF Owed
    <3>. QED BY <1>2, <2>1, <2>2, <3>1, <3>2, <3>3
  <2>4. CASE IssueFails
    BY <1>2, <1>4, <1>5, <1>9, <2>1, <2>2, <2>4
  <2>. QED BY <1>9, <2>3, <2>4 DEF AfterComment
<1>10. CASE /\ pc = "comments" /\ call.req = CloseRequest(cur, made) /\ AfterClose(answer)
  <2>1. /\ \A s : call.req # IssueRequest(s)
        /\ \A s, n, k : call.req # CommentRequest(s, n, k)
    BY <1>10, RequestsDiffer
  <2>2. cur' = cur + 1 /\ pc' = "issue" /\ existing' = existing
    BY <1>5, <1>10 DEF AfterClose, NextIssue
  <2>. QED BY <1>2, <1>4, <1>10, <2>1, <2>2
<1>. QED BY <1>6, <1>7, <1>8, <1>9, <1>10, HeardIs

\* No step changes what is fixed for a behaviour.
LEMMA Fixed == [Next]_vars => UNCHANGED fixed
BY DEF Next, Program, vars, BeginAttempt, ReadMetadata, StopBeforeStage, ArchiveOnly, ListSource,
       ScanTarget, EnsureLabels, SkipExisting, CreateIssue, PostComment, CloseIssue, IssueDone,
       Exchange, ReportIssues, PersistArchives, Verify, LateArrival, Crash

\* The second invariant: nothing is created that was heard to be there.
LEMMA CountedNext ==
  ASSUME Base, Counted, [Next]_vars
  PROVE  Counted'
<1>. USE DEF Base
<1>f. listed' = listed
  BY Fixed DEF fixed
<1>0. ASSUME UNCHANGED <<pc, cur, existing, said>>
      PROVE  /\ \A s \in Issues : Due(s)' => Due(s)
             /\ \A s \in Issues : \A k \in 1 .. Source[s].comments : Owed(s, k)' => Owed(s, k)
  BY <1>0 DEF Due, Owed
<1>1. CASE Local
  <2>1. Quiet
    BY <1>1, LocalIs DEF Idles, Asks, Send, Quiet, httpVars, target_vars
  <2>. QED BY <1>f, <1>1, <2>1, LocalDues, CountedUnheard
<1>2. CASE UNCHANGED vars
  <2>1. Quiet /\ UNCHANGED <<pc, cur, existing, said>> /\ call' = call
    BY <1>2 DEF vars, httpVars, target_vars, loop_vars, attempt_vars, Quiet
  <2>. QED BY <1>f, <1>0, <2>1, CountedUnheard DEF LabelAsked
<1>3. CASE LateArrival
  <2>1. PICK r \in BagToSet(late) : Arrive(r) /\ target' = Execute(r) /\ UNCHANGED lost
    BY <1>3 DEF LateArrival
  <2>2. r \in Requests /\ Arrived(r)
    BY <2>1 DEF Arrive, Arrived, BagToSet, NetOK
  <2>3. UNCHANGED <<pc, cur, existing, said>> /\ call' = call
    BY <1>3 DEF LateArrival, Arrive, loop_vars, attempt_vars
  <2>. QED BY <1>f, <1>0, <2>2, <2>3, CountedUnheard DEF LabelAsked
<1>4. CASE Crash
  <2>1. PICK effect \in {"later", "never"} :
          /\ Abandon(effect)
          /\ lost' = IF effect = "later" THEN LostOne(call.req) ELSE lost
    BY <1>4 DEF Crash
  <2>2. Quiet \/ (call.req \in Requests /\ Delayed(call.req))
    BY <1>4, <2>1 DEF Abandon, Crash, Quiet, Delayed, NetOK
  <2>3. pc' = "idle" /\ call' = NONE
    BY <1>4, <2>1 DEF Crash, Abandon
  <2>4. (\A s : ~ Due(s)') /\ (\A s, k : ~ Owed(s, k)') /\ ~ LabelAsked'
    BY <2>3 DEF Due, Owed, LabelAsked
  <2>. QED BY <1>f, <2>2, <2>4, CountedUnheard
<1>5. CASE Exchange
  <2>1. CASE /\ call' \in [req : {call.req}, tried : 0 .. MaxAttempts - 1]
             /\ Quiet \/ Unheard(call.req) \/ Delayed(call.req)
             /\ UNCHANGED <<loop_vars, pc, modules, broken>>
    <3>1. UNCHANGED <<pc, cur, existing, said>> /\ call # NONE /\ call.req \in Requests
      BY <1>5, <2>1, ExchangeIs DEF loop_vars
    <3>2. LabelAsked' => LabelAsked
      BY <2>1, <3>1 DEF LabelAsked
    <3>. QED BY <1>f, <1>0, <2>1, <3>1, <3>2, CountedUnheard
  <2>2. ASSUME NEW answer \in Answers, Heard(answer), call' = NONE,
               \/ Served(call.req)
               \/ answer # "done" /\ (Quiet \/ Unheard(call.req) \/ Delayed(call.req))
        PROVE  Counted'
    <3>1. call # NONE /\ call.req \in Requests
      BY <1>5, ExchangeIs
    <3>2. /\ \A s \in Issues : Due(s)' => Due(s)
          /\ \A s : \A k \in Int : Owed(s, k)' => Owed(s, k) \/ (answer = "done" /\ call.req = IssueRequest(s))
          /\ \A s \in Issues : call.req = IssueRequest(s) => Due(s) /\ ~ Due(s)'
          /\ \A s, n, k : call.req = CommentRequest(s, n, k) => Owed(s, k) /\ ~ Owed(s, k)'
          /\ call.req = LabelRequest => LabelAsked
          /\ ~ LabelAsked'
      BY <2>2, <3>1, HeardDues
    <3>3. CASE Served(call.req)
      <4>1. Step(call.req)
        BY <3>3 DEF Step, NetMoves
      <4>. QED BY <1>f, <3>1, <3>2, <3>3, <4>1, CountedStep
    <3>4. CASE answer # "done" /\ (Quiet \/ Unheard(call.req) \/ Delayed(call.req))
      BY <1>f, <3>1, <3>2, <3>4, CountedUnheard
    <3>. QED BY <2>2, <3>3, <3>4
  <2>. QED BY <1>5, <2>1, <2>2, ExchangeIs
<1>. QED BY <1>1, <1>2, <1>3, <1>4, <1>5 DEF Next, Program, Local

\* It holds at the start, where there is nothing to count.
LEMMA CountedInit == Init => Counted
<1>. SUFFICES ASSUME Init PROVE Counted
  OBVIOUS
<1>1. Base
  BY BaseInit
<1>2. /\ target = [issues |-> <<>>, labels |-> 0, described |-> FALSE]
      /\ lost = [o \in Objects |-> 0] /\ late = EmptyBag /\ pc = "idle" /\ call = NONE
  BY DEF Init, HttpInit
<1>3. \A s : NumbersOf(s) = {}
  <2>1. DOMAIN target.issues = {}
    BY <1>2, EmptySeq
  <2>. QED BY <2>1 DEF NumbersOf
<1>4. \A q : Waiting(q) = 0
  <2>1. DOMAIN late = {}
    BY <1>2 DEF EmptyBag, SetToBag
  <2>. QED BY <2>1 DEF Waiting, CountIn
<1>5. \A s, k : OnTarget(s, k) = {} /\ InFlight(s, k) = {}
  BY <1>3 DEF OnTarget, InFlight
<1>6. IsFiniteSet({}) /\ Cardinality({}) = 0
  BY FS_EmptySet
<1>7. IssuesCounted
  <2>1. ASSUME NEW s \in Issues
        PROVE  /\ IssueSurplus(s) <= 1 /\ IssueSurplus(s) <= 0
               /\ Waiting(IssueRequest(s)) <= lost[<<s, 0>>]
    <3>1. lost[<<s, 0>>] = 0
      BY <1>2, ObjectsAre
    <3>2. NumbersOf(s) = {} /\ Waiting(IssueRequest(s)) = 0
      BY <1>3, <1>4
    <3>3. IssueSurplus(s) = 0
      BY <1>6, <3>1, <3>2 DEF IssueSurplus
    <3>. QED BY <3>1, <3>2, <3>3
  <2>. QED BY <2>1 DEF IssuesCounted
<1>8. CommentsCounted
  <2>1. ASSUME NEW s \in Issues, NEW k \in 1 .. Source[s].comments
        PROVE  CommentSurplus(s, k) = 0 /\ Finite(s, k) /\ ~ Owed(s, k)
    <3>1. lost[<<s, k>>] = 0
      BY <1>2, ObjectsAre
    <3>2. OnTarget(s, k) = {} /\ InFlight(s, k) = {}
      BY <1>5
    <3>. QED BY <1>2, <1>6, <3>1, <3>2 DEF CommentSurplus, Finite, Owed
  <2>. QED BY <1>3, <1>6, <2>1 DEF CommentsCounted
<1>9. LabelsCounted
  <2>1. LabelSurplus = 0 /\ lost[<<0, 0>>] = 0
    BY <1>2, <1>4, ObjectsAre DEF LabelSurplus
  <2>. QED BY <1>4, <2>1 DEF LabelsCounted
<1>. QED BY <1>7, <1>8, <1>9 DEF Counted

\* Hence the second invariant holds always.
LEMMA CountedInv == Spec => [](Base /\ Counted)
<1>1. Init => Base /\ Counted
  BY BaseInit, CountedInit
<1>2. Base /\ Counted /\ [Next]_vars => (Base /\ Counted)'
  BY BaseStep, CountedNext
<1>. QED BY <1>1, <1>2, PTL DEF Spec

\* Over all attempts, crashes, repeats and late arrivals, for every source: an
\* issue or a comment is on the target once, and once more at most for each lost
\* answer to its creation; and so is the label, if the one page of labels that
\* target_label_ids reads shows it.
THEOREM NoNeedlessCopy == Spec => []CopiesAreLostAnswers
<1>1. Base /\ Counted => CopiesAreLostAnswers
  <2>. SUFFICES ASSUME Base, Counted PROVE CopiesAreLostAnswers
    OBVIOUS
  <2>1. TargetOK /\ NetOK
    BY DEF Base
  <2>2. ASSUME NEW s \in Issues
        PROVE  /\ Cardinality(NumbersOf(s)) \in Nat /\ lost[<<s, 0>>] \in Nat
               /\ Cardinality(NumbersOf(s)) <= 1 + lost[<<s, 0>>]
    <3>1. /\ Cardinality(NumbersOf(s)) \in Nat /\ lost[<<s, 0>>] \in Nat
          /\ Waiting(IssueRequest(s)) \in Nat
      BY <2>1, NumbersFinite, ObjectsAre, WaitingMoves DEF TargetOK
    <3>2. IssueSurplus(s) <= 1
      BY DEF Counted, IssuesCounted
    <3>. QED BY <3>1, <3>2 DEF IssueSurplus
  <2>3. \A s \in Issues : Copies(<<s, 0>>) <= 1 + lost[<<s, 0>>]
    BY <2>2 DEF Copies
  <2>4. ASSUME NEW s \in Issues, NEW k \in 1 .. Source[s].comments
        PROVE  Copies(<<s, k>>) <= 1 + lost[<<s, 0>>] + lost[<<s, k>>]
    <3>. DEFINE on(n) == {<<n, i>> : i \in {i \in DOMAIN target.issues[n].comments :
                                             target.issues[n].comments[i] = k}}
    <3>1. k # 0 /\ k \in Nat
      BY SourceType
    <3>2. Copies(<<s, k>>) = Cardinality(UNION {on(n) : n \in NumbersOf(s)})
      BY <3>1 DEF Copies
    <3>3. UNION {on(n) : n \in NumbersOf(s)} \subseteq OnTarget(s, k)
      <4>1. ASSUME NEW n \in NumbersOf(s), NEW x \in on(n) PROVE x \in OnTarget(s, k)
        <5>1. PICK i \in DOMAIN target.issues[n].comments :
                x = <<n, i>> /\ target.issues[n].comments[i] = k
          OBVIOUS
        <5>2. i \in Nat
          <6>1. target.issues \in Seq(IssueRow) /\ n \in DOMAIN target.issues
            BY <2>1 DEF TargetOK, TargetRow, NumbersOf
          <6>2. target.issues[n] \in IssueRow
            BY <6>1
          <6>3. target.issues[n].comments \in Seq(Nat)
            BY <6>2 DEF IssueRow
          <6>. QED BY <6>3, LenProperties
        <5>. QED BY <5>1, <5>2 DEF OnTarget, PlacedAt
      <4>. HIDE DEF on
      <4>. QED BY <4>1
    <3>4. /\ Finite(s, k) /\ CommentSurplus(s, k) <= Cardinality(NumbersOf(s))
      BY DEF Counted, CommentsCounted
    <3>5. /\ Cardinality(UNION {on(n) : n \in NumbersOf(s)}) <= Cardinality(OnTarget(s, k))
          /\ Cardinality(OnTarget(s, k)) \in Nat /\ Cardinality(InFlight(s, k)) \in Nat
          /\ Cardinality(UNION {on(n) : n \in NumbersOf(s)}) \in Nat
      <4>. HIDE DEF on
      <4>. QED BY <3>3, <3>4, FS_Subset, FS_CardinalityType DEF Finite
    <3>6. lost[<<s, k>>] \in Nat
      BY <2>1, ObjectsAre DEF TargetOK
    <3>. HIDE DEF on
    <3>. QED BY <2>2, <3>2, <3>4, <3>5, <3>6 DEF CommentSurplus
  <2>5. listed => target.labels <= 1 + lost[<<0, 0>>]
    <3>1. target.labels \in Nat /\ lost[<<0, 0>>] \in Nat /\ Waiting(LabelRequest) \in Nat
      BY <2>1, ObjectsAre, WaitingMoves DEF TargetOK, TargetRow
    <3>. QED BY <3>1 DEF Counted, LabelsCounted, LabelSurplus
  <2>. QED BY <2>3, <2>4, <2>5 DEF CopiesAreLostAnswers
<1>. QED BY <1>1, CountedInv, PTL
-----------------------------------------------------------------------------
(***************************************************************************)
(* What an attempt claims while it runs, and what its row claims at last.  *)
(***************************************************************************)

Present == {s \in Issues : NumbersOf(s) # {}}

Credited == migrated \subseteq Present

Reported ==
    /\ "issues" \in DOMAIN modules => modules["issues"].target_count <= Cardinality(Present)
    /\ "metadata" \in DOMAIN modules /\ modules["metadata"].ok => target.described

\* Past the metadata stage its report is kept, unless the attempt is broken.
Staged ==
    \/ pc \in {"list", "scan", "labels", "issue", "comments", "verify"}
    \/ pc = "persist" /\ ~ broken
    => "metadata" \in DOMAIN modules

Saved == pc = "verify" /\ HasArchive => archived

Claimed == Credited /\ Reported /\ Staged /\ Saved /\ ClaimsAreThere /\ ArchiveIsOnDisk

\* What is present stays so.
LEMMA PresentGrows ==
  ASSUME TargetOK, NetOK, World
  PROVE  /\ Present \subseteq Present'
         /\ IsFiniteSet(Present) /\ IsFiniteSet(Present')
         /\ Cardinality(Present) \in Nat /\ Cardinality(Present') \in Nat
         /\ Cardinality(Present) <= Cardinality(Present')
         /\ target.described => target'.described
<1>1. Present \subseteq Present' /\ (target.described => target'.described)
  <2>1. \A s : NumbersOf(s) \subseteq NumbersOf(s)'
    BY WorldGrows
  <2>2. target.described => target'.described
    BY WorldGrows
  <2>. QED BY <2>1, <2>2 DEF Present
<1>2. IsFiniteSet(Issues)
  <2>1. Issues = 1 .. Len(Source) /\ 1 \in Int /\ Len(Source) \in Int
    BY SourceType
  <2>. QED BY <2>1, FS_Interval
<1>3. Present \subseteq Issues /\ Present' \subseteq Issues
  BY DEF Present
<1>4. IsFiniteSet(Present) /\ IsFiniteSet(Present')
  BY <1>2, <1>3, FS_Subset
<1>. QED BY <1>1, <1>4, FS_Subset, FS_CardinalityType

\* A recorded report joins the others, or the attempt is broken.
LEMMA RecordKeeps ==
  ASSUME NEW module, NEW report, NEW next, Record(module, report, next)
  PROVE  /\ DOMAIN modules \subseteq DOMAIN modules' /\ DOMAIN modules' \subseteq DOMAIN modules \cup {module}
         /\ \A m \in DOMAIN modules : m # module => modules'[m] = modules[m]
         /\ \/ /\ pc' = next /\ broken' = broken
               /\ module \in DOMAIN modules' /\ modules'[module] = report
            \/ pc' = "persist" /\ broken' = TRUE /\ modules' = modules
<1>1. CASE /\ modules' = [m \in DOMAIN modules \cup {module} |-> IF m = module THEN report ELSE modules[m]]
           /\ pc' = next /\ UNCHANGED broken
  BY <1>1
<1>2. CASE broken' = TRUE /\ pc' = "persist" /\ UNCHANGED modules
  BY <1>2
<1>. QED BY <1>1, <1>2 DEF Record

\* A true report leaves the reports true.
LEMMA ReportedStep ==
  ASSUME TargetOK, NetOK, World, Reported, ModulesOK,
         NEW module, NEW report, NEW next, Record(module, report, next),
         module = "issues" => report.target_count <= Cardinality(Present'),
         module = "metadata" => (report.ok => target'.described)
  PROVE  Reported'
<1>1. /\ Cardinality(Present) \in Nat /\ Cardinality(Present') \in Nat
      /\ Cardinality(Present) <= Cardinality(Present')
      /\ target.described => target'.described
  BY PresentGrows
<1>2. \A m \in DOMAIN modules : modules[m].target_count \in Nat
  BY DEF ModulesOK, ReportRow
<1>3. /\ DOMAIN modules' \subseteq DOMAIN modules \cup {module}
      /\ \A m \in DOMAIN modules : m # module => modules'[m] = modules[m]
      /\ \/ modules'[module] = report
         \/ modules' = modules
  BY RecordKeeps
<1>4. "issues" \in DOMAIN modules' => modules'["issues"].target_count <= Cardinality(Present')
  BY <1>1, <1>2, <1>3 DEF Reported
<1>5. "metadata" \in DOMAIN modules' /\ modules'["metadata"].ok => target'.described
  BY <1>1, <1>3 DEF Reported
<1>. QED BY <1>4, <1>5 DEF Reported

\* No new claim is made while the reports and the count stay.
LEMMA ClaimsStay ==
  ASSUME TargetOK, NetOK, World, Credited, Reported, ModulesOK, UNCHANGED <<modules, migrated>>
  PROVE  Credited' /\ Reported'
<1>1. /\ Present \subseteq Present'
      /\ Cardinality(Present) \in Nat /\ Cardinality(Present') \in Nat
      /\ Cardinality(Present) <= Cardinality(Present')
      /\ target.described => target'.described
  BY PresentGrows
<1>2. \A m \in DOMAIN modules : modules[m].target_count \in Nat
  BY DEF ModulesOK, ReportRow
<1>3. Credited'
  BY <1>1 DEF Credited
<1>4. Reported'
  BY <1>1, <1>2 DEF Reported
<1>. QED BY <1>3, <1>4

\* The stages that report, and how far the attempt then is.
LEMMA StageReports ==
  ASSUME Base, Claimed, World, Base', UNCHANGED migrated,
         \/ pc = "metadata" /\ \E report \in ReportRow :
              Record("metadata", report, "list") /\ (report.ok => target'.described)
         \/ /\ pc \in {"list", "scan", "labels", "issue"}
            /\ \E report \in ReportRow :
                 Record("issues", report, "persist") /\ report.target_count <= Cardinality(Present')
  PROVE  Claimed'
<1>. USE DEF Base, MemoryOK
<1>1. Credited'
  BY PresentGrows DEF Claimed, Credited
<1>2. Reported'
  <2>1. CASE \E report \in ReportRow : Record("metadata", report, "list") /\ (report.ok => target'.described)
    <3>1. PICK report \in ReportRow : Record("metadata", report, "list") /\ (report.ok => target'.described)
      BY <2>1
    <3>. QED BY <3>1, ReportedStep DEF Claimed
  <2>2. CASE \E report \in ReportRow :
               Record("issues", report, "persist") /\ report.target_count <= Cardinality(Present')
    <3>1. PICK report \in ReportRow :
            Record("issues", report, "persist") /\ report.target_count <= Cardinality(Present')
      BY <2>2
    <3>. QED BY <3>1, ReportedStep DEF Claimed
  <2>. QED BY <2>1, <2>2
<1>3. Staged'
  BY RecordKeeps DEF Claimed, Staged
<1>4. pc' \in {"list", "persist"}
  BY RecordKeeps
<1>5. status' = "running"
  BY <1>4 DEF Placed
<1>. QED BY <1>1, <1>2, <1>3, <1>4, <1>5 DEF Claimed, Saved, ClaimsAreThere, ArchiveIsOnDisk

\* A step that records nothing and leaves the attempt running.
LEMMA StageGoesOn ==
  ASSUME Base, Claimed, World, Base', UNCHANGED modules,
         migrated' \subseteq migrated \cup Present', pc' \notin {"idle", "verify"}, Staged'
  PROVE  Claimed'
<1>. USE DEF Base, MemoryOK
<1>1. /\ Present \subseteq Present'
      /\ Cardinality(Present) \in Nat /\ Cardinality(Present') \in Nat
      /\ Cardinality(Present) <= Cardinality(Present')
      /\ target.described => target'.described
  BY PresentGrows
<1>2. \A m \in DOMAIN modules : modules[m].target_count \in Nat
  BY DEF ModulesOK, ReportRow
<1>3. Credited'
  BY <1>1 DEF Claimed, Credited
<1>4. Reported'
  BY <1>1, <1>2 DEF Claimed, Reported
<1>5. status' = "running"
  BY DEF Placed
<1>. QED BY <1>3, <1>4, <1>5 DEF Claimed, Saved, ClaimsAreThere, ArchiveIsOnDisk

\* A step that ends the attempt without a verdict.
LEMMA AttemptForgotten ==
  ASSUME Base, Claimed, World, Forget, pc' = "idle",
         status' \notin {"succeeded", "partial"}
  PROVE  Claimed'
<1>1. migrated' = {} /\ DOMAIN modules' = {}
  BY ForgetIs
<1>. QED BY <1>1 DEF Claimed, Credited, Reported, Staged, Saved, ClaimsAreThere, ArchiveIsOnDisk
\* The third invariant: what is claimed is there.
LEMMA ClaimedStep ==
  ASSUME Base, Claimed, [Next]_vars
  PROVE  Claimed'
<1>. USE DEF Base
<1>1. Base' /\ World
  BY BaseStep, NetStep
<1>2. /\ Present \subseteq Present' /\ IsFiniteSet(Present')
      /\ Cardinality(Present) \in Nat /\ Cardinality(Present') \in Nat
      /\ Cardinality(Present) <= Cardinality(Present')
      /\ target.described => target'.described
  BY <1>1, PresentGrows
<1>3. ASSUME UNCHANGED <<modules, migrated, broken, archived, status, pc>> PROVE Claimed'
  <2>1. Credited' /\ Reported'
    BY <1>1, <1>3, ClaimsStay DEF Claimed, MemoryOK
  <2>2. \A m \in DOMAIN modules : modules[m].target_count \in Nat
    BY DEF MemoryOK, ModulesOK, ReportRow
  <2>3. Staged' /\ Saved'
    BY <1>3 DEF Claimed, Staged, Saved, HasArchive
  <2>4. ClaimsAreThere'
    BY <1>2, <1>3, <2>2 DEF Claimed, ClaimsAreThere, Present
  <2>5. ArchiveIsOnDisk'
    BY <1>3 DEF Claimed, ArchiveIsOnDisk, HasArchive
  <2>. QED BY <2>1, <2>3, <2>4, <2>5 DEF Claimed
<1>4. ASSUME cur \in Issues, NumbersOf(cur) # {}, migrated' = migrated \cup {cur}
      PROVE  migrated' \subseteq migrated \cup Present'
  BY <1>2, <1>4 DEF Present
<1>5. CASE BeginAttempt
  <2>1. /\ UNCHANGED <<modules, migrated>> /\ pc' = "metadata"
    BY <1>5 DEF BeginAttempt, loop_vars
  <2>. QED BY <1>1, <2>1, StageGoesOn DEF Staged
<1>6. CASE ReadMetadata
  <2>1. UNCHANGED migrated /\ pc = "metadata" /\ UNCHANGED <<archived, status>>
    BY <1>6 DEF ReadMetadata, loop_vars
  <2>2. CASE UNCHANGED <<pc, modules, broken>>
    BY <1>3, <2>1, <2>2
  <2>3. CASE Record("metadata", Report("unsupported", FALSE, 0, 0), "list")
    <3>1. PICK report \in ReportRow : report = Report("unsupported", FALSE, 0, 0)
      BY ReportsAre
    <3>2. Record("metadata", report, "list") /\ (report.ok => target'.described)
      BY <2>3, <3>1 DEF Report
    <3>. QED BY <1>1, <2>1, <3>2, StageReports
  <2>. QED BY <1>6, <2>2, <2>3 DEF ReadMetadata
<1>7. CASE StopBeforeStage
  <2>1. UNCHANGED <<modules, migrated>> /\ pc' = "persist" /\ broken' = TRUE
    BY <1>7 DEF StopBeforeStage, loop_vars
  <2>. QED BY <1>1, <2>1, StageGoesOn DEF Staged
<1>8. ASSUME NEW report \in ReportRow, report.target_count = 0, Record("issues", report, "persist"),
             pc \in {"list", "scan", "labels", "issue"}, UNCHANGED migrated
      PROVE  Claimed'
  <2>1. report.target_count <= Cardinality(Present')
    BY <1>2, <1>8
  <2>. QED BY <1>1, <1>8, <2>1, StageReports
<1>9. ASSUME ModuleFails, pc \in {"list", "scan", "labels", "issue"}, UNCHANGED migrated PROVE Claimed'
  <2>1. PICK report \in ReportRow : report = Report("unsupported", FALSE, 0, 0)
    BY ReportsAre
  <2>2. report.target_count = 0 /\ Record("issues", report, "persist")
    BY <1>9, <2>1 DEF Report, ModuleFails
  <2>. QED BY <1>8, <1>9, <2>2
<1>10. CASE ArchiveOnly
  <2>1. PICK report \in ReportRow :
          report.target_count = 0 /\ Record("issues", report, "persist")
    <3>1. /\ Report("read_only_archive", TRUE, Len(Source), 0) \in ReportRow
          /\ Report("unsupported", route = "unsupported", 0, 0) \in ReportRow
      BY ReportsAre, SourceType
    <3>2. /\ Report("read_only_archive", TRUE, Len(Source), 0).target_count = 0
          /\ Report("unsupported", route = "unsupported", 0, 0).target_count = 0
      BY DEF Report
    <3>. QED BY <1>10, <3>1, <3>2 DEF ArchiveOnly
  <2>2. pc = "list" /\ UNCHANGED migrated
    BY <1>10 DEF ArchiveOnly, loop_vars
  <2>. QED BY <1>8, <2>1, <2>2
<1>11. CASE ListSource
  <2>1. pc = "list" /\ UNCHANGED migrated
    BY <1>11 DEF ListSource
  <2>2. CASE pc' = "scan" /\ UNCHANGED <<modules, broken>>
    <3>1. Staged'
      BY <2>1, <2>2 DEF Claimed, Staged
    <3>. QED BY <1>1, <2>1, <2>2, <3>1, StageGoesOn
  <2>. QED BY <1>9, <1>11, <2>1, <2>2 DEF ListSource
<1>12. CASE ScanTarget
  <2>1. pc = "scan" /\ UNCHANGED migrated
    BY <1>12 DEF ScanTarget
  <2>2. CASE pc' = "labels" /\ UNCHANGED <<modules, broken>>
    <3>1. Staged'
      BY <2>1, <2>2 DEF Claimed, Staged
    <3>. QED BY <1>1, <2>1, <2>2, <3>1, StageGoesOn
  <2>. QED BY <1>9, <1>12, <2>1, <2>2 DEF ScanTarget
<1>13. CASE EnsureLabels
  <2>1. pc = "labels" /\ UNCHANGED migrated
    BY <1>13 DEF EnsureLabels, loop_vars
  <2>2. CASE pc' \in {"labels", "issue"} /\ UNCHANGED <<modules, broken>>
    <3>1. Staged'
      BY <2>1, <2>2 DEF Claimed, Staged
    <3>. QED BY <1>1, <2>1, <2>2, <3>1, StageGoesOn
  <2>3. ModuleFails \/ (pc' \in {"labels", "issue"} /\ UNCHANGED <<modules, broken>>)
    BY <1>13, <2>1 DEF EnsureLabels
  <2>. QED BY <1>9, <2>1, <2>2, <2>3
<1>14. CASE SkipExisting
  <2>1. /\ UNCHANGED <<modules, broken>> /\ pc = "issue" /\ pc' = "issue" /\ cur \in Issues
        /\ cur \in DOMAIN existing /\ migrated' = migrated \cup {cur}
    BY <1>14 DEF SkipExisting, NextIssue
  <2>2. NumbersOf(cur) # {}
    BY <2>1 DEF MemoryOK
  <2>3. Staged'
    BY <2>1 DEF Claimed, Staged
  <2>. QED BY <1>1, <1>4, <2>1, <2>2, <2>3, StageGoesOn
<1>15. CASE CreateIssue \/ PostComment \/ CloseIssue
  BY <1>3, <1>15 DEF CreateIssue, PostComment, CloseIssue, loop_vars, attempt_vars
<1>16. CASE IssueDone
  <2>1. /\ UNCHANGED <<modules, broken>> /\ pc = "comments" /\ pc' = "issue"
        /\ migrated' = migrated \cup {cur}
    BY <1>16 DEF IssueDone, NextIssue
  <2>2. cur \in Issues /\ NumbersOf(cur) # {}
    BY <2>1 DEF Placed
  <2>3. Staged'
    BY <2>1 DEF Claimed, Staged
  <2>. QED BY <1>1, <1>4, <2>1, <2>2, <2>3, StageGoesOn
<1>17. CASE ReportIssues
  <2>1. Cardinality(migrated) \in Nat /\ Cardinality(migrated) <= Cardinality(Present')
    <3>1. migrated \subseteq Present'
      BY <1>2 DEF Claimed, Credited
    <3>. QED BY <1>2, <3>1, FS_Subset, FS_CardinalityType
  <2>2. PICK report : report = Report("native_rebuild", TRUE, Len(Source), Cardinality(migrated))
    OBVIOUS
  <2>3. report \in ReportRow
    BY <2>1, <2>2, ReportsAre, SourceType
  <2>4. report.target_count = Cardinality(migrated)
    BY <2>2 DEF Report
  <2>5. Record("issues", report, "persist") /\ pc = "issue" /\ UNCHANGED migrated
    BY <1>17, <2>2 DEF ReportIssues, loop_vars
  <2>6. report.target_count <= Cardinality(Present')
    BY <2>1, <2>4
  <2>. QED BY <1>1, <2>3, <2>5, <2>6, StageReports
<1>18. CASE PersistArchives
  <2>1. CASE FailAttempt
    BY <1>1, <2>1, AttemptForgotten DEF FailAttempt
  <2>2. CASE /\ archived' = (archived \/ HasArchive) /\ ~ broken
             /\ pc' = "verify" /\ Keep /\ UNCHANGED status
    <3>1. UNCHANGED <<modules, migrated, broken>> /\ pc = "persist"
      BY <1>18, <2>2 DEF PersistArchives, Keep, loop_vars
    <3>2. Credited' /\ Reported'
      BY <1>1, <3>1, ClaimsStay DEF Claimed, MemoryOK
    <3>3. Staged' /\ Saved'
      BY <2>2, <3>1 DEF Claimed, Staged, Saved, HasArchive
    <3>4. status' = "running"
      BY <1>1, <2>2 DEF Placed
    <3>. QED BY <3>2, <3>3, <3>4 DEF Claimed, ClaimsAreThere, ArchiveIsOnDisk
  <2>. QED BY <1>18, <2>1, <2>2 DEF PersistArchives
<1>19. CASE Verify
  <2>1. CASE FailAttempt
    BY <1>1, <2>1, AttemptForgotten DEF FailAttempt
  <2>2. CASE status' = Verdict /\ pc' = "idle" /\ Keep
    <3>1. /\ UNCHANGED <<modules, migrated, broken, archived>> /\ pc = "verify" /\ target' = target
      BY <1>19, <2>2 DEF Verify, Keep, loop_vars, target_vars
    <3>2. Credited' /\ Reported'
      BY <1>1, <3>1, ClaimsStay DEF Claimed, MemoryOK
    <3>3. Staged' /\ Saved'
      BY <2>2, <3>1 DEF Staged, Saved
    <3>4. ClaimsAreThere'
      <4>1. "issues" \in DOMAIN modules' =>
               modules'["issues"].target_count <= Cardinality({s \in Issues : NumbersOf(s)' # {}})
        BY <3>2 DEF Reported, Present
      <4>2. status' = "succeeded" => target'.described
        <5>1. "metadata" \in DOMAIN modules
          BY <3>1 DEF Claimed, Staged
        <5>2. status' = "succeeded" => modules["metadata"].ok
          BY <2>2, <5>1 DEF Verdict
        <5>. QED BY <1>2, <5>1, <5>2 DEF Claimed, Reported
      <4>. QED BY <4>1, <4>2 DEF ClaimsAreThere
    <3>5. ArchiveIsOnDisk'
      BY <3>1 DEF Claimed, Saved, ArchiveIsOnDisk, HasArchive
    <3>. QED BY <3>2, <3>3, <3>4, <3>5 DEF Claimed
  <2>. QED BY <1>19, <2>1, <2>2 DEF Verify
<1>20. CASE LateArrival \/ UNCHANGED vars
  BY <1>3, <1>20 DEF LateArrival, vars, loop_vars, attempt_vars
<1>21. CASE Crash
  <2>1. /\ Forget /\ pc' = "idle" /\ status' = "running"
    BY <1>21 DEF Crash, Placed
  <2>. QED BY <1>1, <2>1, AttemptForgotten
<1>22. CASE Exchange
  <2>1. CASE UNCHANGED <<loop_vars, pc, modules, broken>>
    <3>1. UNCHANGED <<archived, status>>
      BY <1>22, ExchangeIs
    <3>. QED BY <1>3, <2>1, <3>1 DEF loop_vars
  <2>2. ASSUME NEW answer \in Answers, Heard(answer), Served(call.req) \/ answer # "done"
        PROVE  Claimed'
    <3>0. call # NONE /\ call.req \in Requests
      BY <1>22, ExchangeIs
    <3>1. CASE pc = "metadata" /\ call.req = MetadataRequest /\ AfterMetadata(answer)
      <4>1. PICK report \in ReportRow :
              Record("metadata", report, "list") /\ (report.ok => answer = "done")
        <5>1. PICK report : report = Report(IF answer = "done" THEN "native_rebuild" ELSE "unsupported",
                                            answer = "done", 0, 0)
          OBVIOUS
        <5>2. report \in ReportRow
          BY <5>1, ReportsAre
        <5>3. Record("metadata", report, "list")
          BY <3>1, <5>1 DEF AfterMetadata
        <5>4. report.ok => answer = "done"
          BY <5>1 DEF Report
        <5>. QED BY <5>2, <5>3, <5>4
      <4>2. answer = "done" => target'.described
        <5>1. Served(call.req) => target'.described
          BY <3>0, <3>1, ExecuteAdds DEF Served
        <5>. QED BY <2>2, <5>1
      <4>3. UNCHANGED migrated
        BY <3>1 DEF AfterMetadata, loop_vars
      <4>. QED BY <1>1, <3>1, <4>1, <4>2, <4>3, StageReports
    <3>2. CASE pc = "labels" /\ AfterLabel(answer)
      <4>1. UNCHANGED migrated
        BY <3>2 DEF AfterLabel, loop_vars
      <4>2. CASE pc' = "issue" /\ UNCHANGED <<modules, broken>>
        <5>1. Staged'
          BY <3>2, <4>2 DEF Claimed, Staged
        <5>. QED BY <1>1, <4>1, <4>2, <5>1, StageGoesOn
      <4>. QED BY <1>9, <3>2, <4>1, <4>2 DEF AfterLabel
    <3>3. ASSUME pc \in {"issue", "comments"}, pc' \in {"issue", "comments"},
                 UNCHANGED <<modules, broken>>, migrated' \subseteq migrated \cup Present'
          PROVE  Claimed'
      <4>1. Staged'
        BY <3>3 DEF Claimed, Staged
      <4>. QED BY <1>1, <3>3, <4>1, StageGoesOn
    <3>4. IssueFails => pc' = "issue" /\ UNCHANGED <<modules, broken, migrated>>
      BY DEF IssueFails, NextIssue
    <3>5. CASE pc = "issue" /\ AfterIssue(answer)
      <4>1. /\ pc' \in {"issue", "comments"}
            /\ UNCHANGED <<modules, broken, migrated>>
        BY <3>4, <3>5 DEF AfterIssue
      <4>. QED BY <3>3, <3>5, <4>1
    <3>6. CASE pc = "comments" /\ AfterComment(answer)
      <4>1. /\ pc' \in {"issue", "comments"}
            /\ UNCHANGED <<modules, broken, migrated>>
        BY <3>4, <3>6 DEF AfterComment
      <4>. QED BY <3>3, <3>6, <4>1
    <3>7. CASE pc = "comments" /\ AfterClose(answer)
      <4>1. cur \in Issues /\ NumbersOf(cur) # {}
        BY <3>7 DEF Placed
      <4>2. /\ pc' = "issue" /\ UNCHANGED <<modules, broken>>
            /\ migrated' = migrated \cup {cur} \/ migrated' = migrated
        BY <3>4, <3>7 DEF AfterClose, NextIssue
      <4>3. migrated' \subseteq migrated \cup Present'
        BY <1>4, <4>1, <4>2
      <4>. QED BY <3>3, <3>7, <4>2, <4>3
    <3>. QED BY <2>2, <3>0, <3>1, <3>2, <3>5, <3>6, <3>7, HeardIs
  <2>. QED BY <1>22, <2>1, <2>2, ExchangeIs
<1>. QED BY <1>5, <1>6, <1>7, <1>10, <1>11, <1>12, <1>13, <1>14, <1>15, <1>16, <1>17, <1>18,
            <1>19, <1>20, <1>21, <1>22 DEF Next, Program

\* It holds at the start, where nothing is claimed.
LEMMA ClaimedInit == Init => Claimed
<1>. SUFFICES ASSUME Init PROVE Claimed
  OBVIOUS
<1>1. /\ modules = <<>> /\ migrated = {} /\ pc = "idle" /\ status = "planned"
  BY DEF Init
<1>2. DOMAIN modules = {}
  BY <1>1, EmptySeq
<1>. QED BY <1>1, <1>2
         DEF Claimed, Credited, Reported, Staged, Saved, ClaimsAreThere, ArchiveIsOnDisk

\* Hence the third invariant holds always.
LEMMA ClaimedInv == Spec => [](Base /\ Claimed)
<1>1. Init => Base /\ Claimed
  BY BaseInit, ClaimedInit
<1>2. Base /\ Claimed /\ [Next]_vars => (Base /\ Claimed)'
  BY BaseStep, ClaimedStep
<1>. QED BY <1>1, <1>2, PTL DEF Spec

\* What a finished row says of issues and metadata is on the target.
THEOREM ClaimsHold == Spec => []ClaimsAreThere
<1>1. Base /\ Claimed => ClaimsAreThere
  BY DEF Claimed
<1>. QED BY <1>1, ClaimedInv, PTL

\* A finished row that was archived has its archive.
THEOREM ArchiveKept == Spec => []ArchiveIsOnDisk
<1>1. Base /\ Claimed => ArchiveIsOnDisk
  BY DEF Claimed
<1>. QED BY <1>1, ClaimedInv, PTL
=============================================================================
