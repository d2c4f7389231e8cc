-------------------------- MODULE DocOutputProofs ---------------------------
(***************************************************************************)
(* What holds while a document is published, for any document, any charts  *)
(* and any failures: the report is complete, the URL survives, what was    *)
(* verified stays and the boards are where their charts belong, up to the  *)
(* charts whose board nobody could tell, and every variable has its type.  *)
(*                                                                         *)
(* That the document is a finite sequence of blocks is shown in            *)
(* DocContentProofs; here it is what the charts are positions of.          *)
(***************************************************************************)
EXTENDS DocContentProofs

(* Sets of blocks are finite sets of positive numbers. *)
Positions(S) == S \subseteq Nat \ {0} /\ IsFiniteSet(S)

-----------------------------------------------------------------------------
(*                                 Ranks                                   *)

(* A rank is a number between 1 and the number of blocks. *)
LEMMA RankType ==
  ASSUME NEW S, Positions(S), NEW i \in S
  PROVE  /\ Cardinality(S) \in Nat
         /\ Rank(i, S) \in 1 .. Cardinality(S)
<1> DEFINE B == {c \in S : c <= i}
<1>1. B \in SUBSET S /\ i \in B
  BY DEF Positions
<1>2. /\ IsFiniteSet(B) /\ Cardinality(B) <= Cardinality(S)
      /\ Cardinality(S) \in Nat /\ Cardinality(B) \in Nat
  BY <1>1, FS_Subset, FS_CardinalityType DEF Positions
<1>3. Cardinality(B) # 0
  BY <1>1, <1>2, FS_EmptySet
<1> QED BY <1>2, <1>3 DEF Rank

(* A later block has a higher rank. *)
LEMMA RankIncreases ==
  ASSUME NEW S, Positions(S), NEW i \in S, NEW j \in S, i < j
  PROVE  Rank(i, S) < Rank(j, S)
<1> DEFINE B == {c \in S : c <= i}
           C == {c \in S : c <= j}
<1>1. B \in SUBSET C /\ C \in SUBSET S /\ j \in C /\ j \notin B
  <2>1. i \in Nat /\ j \in Nat /\ \A c \in S : c \in Nat
    BY DEF Positions
  <2>2. j <= j /\ ~(j <= i) /\ \A c \in S : c <= i => c <= j
    BY <2>1
  <2> QED BY <2>2
<1>2. IsFiniteSet(C)
  BY <1>1, FS_Subset DEF Positions
<1>3. Cardinality(B) <= Cardinality(C) /\ Cardinality(C) # Cardinality(B)
  BY <1>1, <1>2, FS_Subset
<1>4. IsFiniteSet(B)
  BY <1>1, <1>2, FS_Subset
<1>5. Cardinality(B) \in Nat /\ Cardinality(C) \in Nat
  BY <1>2, <1>4, FS_CardinalityType
<1> QED BY <1>3, <1>5 DEF Rank

(* Every number up to the number of blocks is the rank of one: ranks are   *)
(* an injection between two finite sets of the same size.                  *)
LEMMA RankExists ==
  ASSUME NEW S, Positions(S), NEW k \in 1 .. Cardinality(S)
  PROVE  \E i \in S : Rank(i, S) = k
<1> DEFINE n == Cardinality(S)
           f == [i \in S |-> Rank(i, S)]
<1>1. n \in Nat
  BY FS_CardinalityType DEF Positions
<1>2. f \in [S -> 1 .. n]
  BY RankType
<1>3. ASSUME NEW i \in S, NEW j \in S, f[i] = f[j] PROVE i = j
  <2>1. i \in Nat /\ j \in Nat
    BY DEF Positions
  <2>2. CASE i < j
    BY <1>2, <1>3, <2>2, RankIncreases
  <2>3. CASE j < i
    BY <1>2, <1>3, <2>3, RankIncreases
  <2> QED BY <2>1, <2>2, <2>3
<1>4. f \in Injection(S, 1 .. n)
  BY <1>2, <1>3 DEF Injection, IsInjective
<1>5. IsFiniteSet(1 .. n) /\ Cardinality(1 .. n) = n
  BY <1>1, FS_Interval
<1>6. f \in Surjection(S, 1 .. n)
  BY <1>4, <1>5, FS_Injection
<1> QED BY <1>6 DEF Surjection

(* Blocks that are left have a first one. *)
LEMMA FirstBlock ==
  ASSUME NEW S, Positions(S), S # {}
  PROVE  Min(S) \in S /\ \A j \in S : Min(S) <= j
<1>1. Cardinality(S) \in Nat /\ Cardinality(S) # 0
  BY FS_CardinalityType, FS_EmptySet DEF Positions
<1>2. PICK i \in S : Rank(i, S) = 1
  BY <1>1, RankExists
<1>3. \A j \in S : i <= j
  <2> SUFFICES ASSUME NEW j \in S, j < i PROVE FALSE
    BY DEF Positions
  <2>1. Rank(j, S) < 1 /\ Rank(j, S) \in 1 .. Cardinality(S)
    BY <1>2, RankIncreases, RankType
  <2> QED BY <1>1, <2>1
<1> QED BY <1>2, <1>3 DEF Min

-----------------------------------------------------------------------------
(*                              The report                                 *)

Early == {"start", "asked", "revision", "fetch", "raised", "save", "publish", "cli", "unpublished"}
Loop  == {"insert", "locate", "push", "verify"}

Charts == ChartsOf(doc, request.position)

(* Between two charts everything that is not left is accounted for; inside *)
(* the loop, all of it but the chart at hand.                              *)
ReportInv ==
    /\ pc \in Early \cup {"pair", "next"} \cup Loop \cup Ended
    /\ pc \in Early => results = {} /\ skipped = {} /\ url = ""
    /\ pc = "pair" => todo = Charts /\ AccountsFor({})
    /\ pc = "next" => todo \subseteq Charts /\ AccountsFor(Charts \ todo)
    /\ pc \in Loop => /\ todo \subseteq Charts /\ chart \in Charts \ todo
                      /\ AccountsFor((Charts \ todo) \ {chart})
    /\ ReportComplete

(* Blocks of a document are positions of it. *)
LEMMA ChartsAreBlocks ==
  ASSUME DocIsSequence
  PROVE  /\ Charts \subseteq DOMAIN doc
         /\ \A S \in SUBSET (DOMAIN doc) : Positions(S)
<1>1. DOMAIN doc \subseteq Nat \ {0} /\ IsFiniteSet(DOMAIN doc)
  <2>1. Len(doc) \in Nat /\ DOMAIN doc = 1 .. Len(doc)
    BY DEF DocIsSequence
  <2>2. IsFiniteSet(1 .. Len(doc))
    BY <2>1, FS_Interval
  <2> QED BY <2>1, <2>2
<1>2. Charts \subseteq DOMAIN doc
  BY DEF Charts, ChartsOf, AnnotatedCharts, UpgradableCharts, MermaidBlocks
<1> QED BY <1>1, <1>2, FS_Subset DEF Positions

(* Nothing is published yet at the start. *)
LEMMA InitReport == Init => ReportInv
  BY DEF Init, ReportInv, Early, Loop, Ended, ReportComplete

(* What publish() answers decides whether there are charts to account for. *)
LEMMA PublishedReport ==
  ASSUME pc \in Early, ReportInv, NEW answer \in {"docx", "text", ""}, Published(answer),
         UNCHANGED <<request, doc, chart, target, tries, results>>
  PROVE  ReportInv'
<1>1. results = {} /\ skipped = {} /\ results' = {}
  BY DEF ReportInv
<1>2. CASE ~WithCharts
  BY <1>1, <1>2 DEF Published, ReportInv, Early, Loop, Ended, ReportComplete, WithCharts
<1>3. CASE WithCharts /\ answer # "docx"
  BY <1>1, <1>3 DEF Published, ReportInv, Early, Loop, Ended, ReportComplete, WithCharts
<1>4. CASE WithCharts /\ answer = "docx"
  <2>1. todo' = Charts' /\ skipped' = {} /\ pc' \in {"pair", "next"}
    BY <1>1, <1>4 DEF Published, Charts
  <2>2. AccountsFor({})' /\ (Charts \ todo)' = {}
    BY <1>1, <2>1 DEF AccountsFor, Reported
  <2>3. pc' = "pair" => (todo = Charts /\ AccountsFor({}))'
    BY <2>1, <2>2
  <2>4. pc' = "next" => (todo \subseteq Charts /\ AccountsFor(Charts \ todo))'
    BY <2>1, <2>2
  <2> QED BY <2>1, <2>3, <2>4 DEF ReportInv, Early, Loop, Ended, ReportComplete
<1> QED BY <1>2, <1>3, <1>4

(* A chart whose publication failed is accounted for as skipped. *)
LEMMA SkipReport ==
  ASSUME ReportInv, pc \in Loop, Skip, UNCHANGED <<request, doc, chart, results, todo>>
  PROVE  ReportInv'
<1>1. todo \subseteq Charts /\ chart \in Charts \ todo /\ AccountsFor((Charts \ todo) \ {chart})
  BY DEF ReportInv
<1>2. pc' = "next" /\ skipped' = skipped \cup {chart} /\ Charts' = Charts /\ Reported' = Reported
  BY DEF Skip, Charts, Reported
<1>3. AccountsFor(Charts \ todo)'
  BY <1>1, <1>2 DEF AccountsFor
<1> QED BY <1>1, <1>2, <1>3 DEF ReportInv, Early, Loop, Ended, ReportComplete

(* Calls that neither skip nor report leave the account as it is. *)
LEMMA InsideLoopReport ==
  ASSUME ReportInv, pc \in Loop, pc' \in Loop,
         UNCHANGED <<request, doc, chart, results, skipped, todo>>
  PROVE  ReportInv'
<1>1. Charts' = Charts /\ Reported' = Reported
  BY DEF Charts, Reported
<1>2. AccountsFor((Charts \ todo) \ {chart})'
  BY <1>1 DEF ReportInv, AccountsFor
<1> QED BY <1>1, <1>2 DEF ReportInv, Early, Loop, Ended, ReportComplete

(* publish_chart accounts for its chart at most once. *)
LEMMA PublishChartReport ==
  ASSUME ReportInv, PublishChart, UNCHANGED <<url, todo>>
  PROVE  ReportInv'
<1>1. pc \in Loop
  BY DEF PublishChart, InsertFails, Insert, LocateFails, Locate, PushFails, Push,
         VerifyAnswers, VerifyNotReady, VerifyFails, Loop
<1>2. CASE InsertFails \/ LocateFails \/ PushFails \/ VerifyFails
  BY <1>1, <1>2, SkipReport DEF InsertFails, LocateFails, PushFails, VerifyFails
<1>3. CASE Insert \/ Locate \/ Push \/ VerifyNotReady
  BY <1>1, <1>3, InsideLoopReport DEF Insert, Locate, Push, VerifyNotReady, Loop
<1>4. CASE VerifyAnswers
  <2>1. PICK ok \in BOOLEAN :
           results' = results \cup {[chart |-> chart, token |-> target, ok |-> ok]}
    BY <1>4 DEF VerifyAnswers
  <2>2. todo \subseteq Charts /\ chart \in Charts \ todo
        /\ AccountsFor((Charts \ todo) \ {chart})
    BY <1>1 DEF ReportInv
  <2>3. pc' = "next" /\ Charts' = Charts /\ skipped' = skipped /\ todo' = todo
    BY <1>4 DEF VerifyAnswers, Charts
  <2>4. Reported' = Reported \cup {chart} /\ chart \notin Reported
    <3>1. [chart |-> chart, token |-> target, ok |-> ok].chart = chart
      OBVIOUS
    <3>2. \A r : r \in results' <=>
             r \in results \/ r = [chart |-> chart, token |-> target, ok |-> ok]
      BY <2>1
    <3>3. Reported' = {r.chart : r \in results'}
      BY DEF Reported
    <3>4. Reported' = Reported \cup {chart}
      BY <3>1, <3>2, <3>3 DEF Reported
    <3> QED BY <2>2, <3>4 DEF AccountsFor
  <2>5. \A r, s \in results' : r.chart = s.chart => r = s
    BY <2>1, <2>2, <2>4 DEF AccountsFor, Reported
  <2>6. AccountsFor(Charts \ todo)'
    BY <2>2, <2>3, <2>4, <2>5 DEF AccountsFor
  <2> QED BY <2>2, <2>3, <2>6 DEF ReportInv, Early, Loop, Ended, ReportComplete
<1> QED BY <1>2, <1>3, <1>4 DEF PublishChart

(* The publication of the document keeps the account. *)
LEMMA PublicationReport ==
  ASSUME ReportInv, DocIsSequence, PublishWithCharts
  PROVE  ReportInv'
<1>1. CASE PublishViaSdk
  BY <1>1, PublishedReport DEF PublishViaSdk, Early
<1>2. CASE PublishViaCli
  BY <1>2, PublishedReport DEF PublishViaCli, Early
<1>3. CASE PublishFallsBack \/ PublishRaises
  BY <1>3 DEF PublishFallsBack, PublishRaises, publisherVars, chartVars,
              ReportInv, Early, Loop, Ended, ReportComplete
<1>4. CASE PairFails
  <2>1. results' = {} /\ skipped' = {Star} /\ pc' = "return"
    BY <1>4 DEF PairFails, ReportInv, AccountsFor, Reported
  <2> QED BY <2>1 DEF ReportInv, Early, Loop, Ended, ReportComplete
<1>5. CASE Pair
  <2>1. pc' = "next" /\ todo' = Charts' /\ Charts' = Charts /\ AccountsFor({})'
    BY <1>5 DEF Pair, publisherVars, chartVars, Charts, ReportInv, AccountsFor, Reported
  <2>2. (Charts \ todo)' = {}
    BY <2>1
  <2> QED BY <2>1, <2>2 DEF ReportInv, Early, Loop, Ended, ReportComplete
<1>6. CASE NextChart
  <2>1. todo \subseteq Charts /\ AccountsFor(Charts \ todo) /\ todo # {}
    BY <1>6 DEF NextChart, ReportInv
  <2>2. chart' \in todo
    BY <1>6, <2>1, ChartsAreBlocks, FirstBlock DEF NextChart
  <2>3. /\ Charts' = Charts /\ todo' = todo \ {chart'} /\ pc' \in Loop
        /\ Reported' = Reported /\ UNCHANGED <<results, skipped>>
    BY <1>6 DEF NextChart, Charts, Reported, Loop
  <2>4. (Charts \ todo') \ {chart'} = Charts \ todo
    BY <2>1, <2>2, <2>3
  <2>5. AccountsFor((Charts \ todo) \ {chart})'
    BY <2>1, <2>3, <2>4 DEF AccountsFor
  <2> QED BY <2>1, <2>2, <2>3, <2>5 DEF ReportInv, Early, Loop, Ended, ReportComplete
<1>7. CASE ChartsDone
  <2>1. /\ pc' = "return" /\ Charts' = Charts /\ Reported' = Reported
        /\ UNCHANGED <<results, skipped>> /\ AccountsFor(Charts)
    BY <1>7 DEF ChartsDone, publisherVars, chartVars, Charts, Reported, ReportInv
  <2>2. AccountsFor(Charts)'
    BY <2>1 DEF AccountsFor
  <2> QED BY <2>1, <2>2 DEF ReportInv, Early, Loop, Ended, ReportComplete, Charts
<1>8. CASE PublishChart /\ UNCHANGED <<url, todo>>
  BY <1>8, PublishChartReport
<1> QED BY <1>1, <1>2, <1>3, <1>4, <1>5, <1>6, <1>7, <1>8 DEF PublishWithCharts

(* Every step of the pipeline does. *)
LEMMA StepReport ==
  ASSUME ReportInv, DocIsSequence, [Next]_vars
  PROVE  ReportInv'
<1> USE DEF ReportInv, Early, Loop, Ended, ReportComplete
<1>1. CASE User \/ Start \/ RefineRaises \/ MergeAndRender \/ SaveRaises
           \/ \E i \in DOMAIN request.sources : FetchOne(i)
  BY <1>1 DEF User, ContinueAfterConfirmation, Start, RefineRaises, FetchOne, MergeAndRender,
              SaveRaises, publisherVars, chartVars
<1>2. CASE SaveDocument
  BY <1>2 DEF SaveDocument, publisherVars, chartVars
<1>3. CASE PublishFeishu
  BY <1>3, PublicationReport DEF PublishFeishu
<1>4. CASE PublishReturns \/ PublishFailed \/ GenerateOutput \/ UNCHANGED vars
  <2>1. UNCHANGED <<request, doc, publisherVars>> /\ (pc' \in Ended \/ pc' = pc)
        /\ (pc' \in Ended => pc \in Ended \/ url = "")
    BY <1>4 DEF PublishReturns, PublishFailed, GenerateOutput, vars
  <2>2. Charts' = Charts /\ Reported' = Reported /\ WithCharts' = WithCharts
        /\ UNCHANGED <<results, skipped, url, todo, chart>>
    BY <2>1 DEF publisherVars, chartVars, Charts, Reported, WithCharts
  <2>3. \A S : AccountsFor(S)' <=> AccountsFor(S)
    BY <2>2 DEF AccountsFor
  <2> QED BY <2>1, <2>2, <2>3 DEF Charts, AccountsFor
<1> QED BY <1>1, <1>2, <1>3, <1>4 DEF Next, Publication

(* For any requests, documents and charts, and however the calls of the    *)
(* SDK, the CLI and lark-cli fail, the answer of publish_with_charts names *)
(* every chart once (feishu_publisher.py:275-280).                         *)
THEOREM ReportCompleteHolds == Spec => []ReportComplete
<1>1. ReportInv => ReportComplete
  BY DEF ReportInv
<1> QED BY <1>1, InitReport, StepReport, DocumentIsSequence, PTL DEF Spec

-----------------------------------------------------------------------------
(*                               The boards                                *)

Board == [place : Nat, holds : Nat]

(* Boards are only ever added, at the end. *)
BoardsInv ==
    /\ boards \in Seq(Board)
    /\ pc \in Early => boards = <<>>
    /\ \A b \in DOMAIN boards : boards[b].place <= EndOf(doc)
    /\ \A r \in results : r.token \in 1 .. Len(boards)

(* The tokens of the results are older than the board at hand, or that     *)
(* board was guessed.                                                      *)
TokenInv ==
    /\ pc \in {"push", "verify"} =>
          /\ target \in 1 .. Len(boards)
          /\ chart \in blind \/ \A r \in results : r.token < target
    /\ pc = "locate" =>
          \/ chart \in blind
          \/ /\ Len(boards) > 0 /\ boards[Len(boards)].place = EndOf(doc)
             /\ \A r \in results : r.token < Len(boards)
    /\ VerifiedBoards

(* Charts are paired in their order, with boards that exist. *)
PairInv ==
    request.position = "auto" =>
        /\ pc \notin {"insert", "locate"}
        /\ pc \in {"next"} \cup Loop =>
              /\ Cardinality(Charts) <= Len(boards)
              /\ \A r \in results : r.token = Paired(r.chart) /\ r.chart \in Charts \ todo
              /\ \A r \in results, c \in todo : r.chart < c
        /\ pc \in Loop =>
              /\ target = Paired(chart)
              /\ \A r \in results : r.chart < chart
              /\ \A c \in todo : chart < c

(* A fresh document has blank boards at its mermaid blocks. *)
LEMMA CreatedTypes ==
  ASSUME DocIsSequence, NEW bs \in CreatedBoards
  PROVE  bs \in Seq(Board) /\ \A b \in DOMAIN bs : bs[b].place <= EndOf(doc)
<1>1. PICK places \in SUBSET MermaidBlocks(doc) : bs = BoardsAt(places)
  BY DEF CreatedBoards
<1>2. places \subseteq DOMAIN doc /\ Positions(places)
  BY <1>1, ChartsAreBlocks DEF MermaidBlocks
<1>3. Cardinality(places) \in Nat
  BY <1>2, FS_CardinalityType DEF Positions
<1> DEFINE At(k) == CHOOSE i \in places : Rank(i, places) = k
<1>4. \A k \in 1 .. Cardinality(places) : At(k) \in places
  BY <1>2, RankExists
<1>5. Len(doc) \in Nat /\ \A i \in places : i \in 1 .. Len(doc)
  BY <1>2 DEF DocIsSequence
<1>6. \A k \in 1 .. Cardinality(places) : At(k) \in Nat /\ At(k) <= EndOf(doc)
  BY <1>4, <1>5 DEF EndOf
<1>7. bs = [k \in 1 .. Cardinality(places) |-> [place |-> At(k), holds |-> Blank]]
  BY <1>1 DEF BoardsAt
<1>8. \A k \in 1 .. Cardinality(places) : bs[k] \in Board /\ bs[k].place <= EndOf(doc)
  BY <1>6, <1>7 DEF Board, Blank
<1>9. bs \in [1 .. Cardinality(places) -> Board]
  BY <1>7, <1>8
<1>10. bs \in Seq(Board)
  BY <1>3, <1>9, SeqDef
<1> QED BY <1>7, <1>8, <1>10

(* Among boards there is always a last one: of those that stand in the     *)
(* last place, the newest at the end of the document, elsewhere the oldest.*)
LEMMA LastBoardExists ==
  ASSUME DocIsSequence, boards \in Seq(Board), NEW seen \in SUBSET (DOMAIN boards), seen # {},
         \A b \in DOMAIN boards : boards[b].place <= EndOf(doc)
  PROVE  LastBoard(seen) \in seen
<1> DEFINE n == Len(boards)
           e == EndOf(doc)
           P(b) == boards[b].place
<1>1. n \in Nat /\ DOMAIN boards = 1 .. n /\ seen \subseteq 1 .. n /\ e \in Nat
  BY DEF DocIsSequence, EndOf
<1>2. \A b \in seen : P(b) \in Nat /\ P(b) <= e
  <2>1. \A b \in seen : boards[b] \in Board
    BY <1>1
  <2> QED BY <2>1 DEF Board
<1>3. \A b, c \in seen : Behind(b, c) <=>
         \/ P(b) > P(c)
         \/ P(b) = P(c) /\ IF P(b) = e THEN b > c ELSE b < c
  BY DEF Behind
<1> HIDE DEF P, e, n
<1> DEFINE D == {e - P(b) : b \in seen}
<1>4. PICK p \in seen : \A c \in seen : P(c) <= P(p)
  <2>1. D \subseteq Nat /\ D # {}
    BY <1>1, <1>2
  <2>2. PICK d \in D : \A m \in D : ~ (m < d)
    BY <2>1, Least
  <2>3. PICK p \in seen : d = e - P(p)
    BY <2>2
  <2>4. \A c \in seen : ~ (e - P(c) < e - P(p))
    BY <2>2, <2>3
  <2>5. ASSUME NEW c \in seen PROVE P(c) <= P(p)
    <3>1. P(c) \in Nat /\ P(p) \in Nat /\ ~ (e - P(c) < e - P(p))
      BY <1>2, <2>4
    <3> QED BY <1>1, <3>1
  <2> QED BY <2>5
<1>5. \E b \in seen : \A c \in seen : c # b => Behind(b, c)
  <2>1. CASE P(p) = e
    <3> DEFINE E == {n - b : b \in {c \in seen : P(c) = e}}
    <3>1. E \subseteq Nat /\ E # {}
      BY <1>1, <2>1
    <3>2. PICK d \in E : \A m \in E : ~ (m < d)
      BY <3>1, Least
    <3>3. PICK b \in seen : P(b) = e /\ d = n - b
      BY <3>2
    <3>4. \A c \in seen : P(c) = e => ~ (n - c < n - b)
      BY <3>2, <3>3
    <3>5. ASSUME NEW c \in seen, c # b PROVE Behind(b, c)
      <4>1. P(c) \in Nat /\ P(c) <= e
        BY <1>2
      <4>2. CASE P(c) = e
        <5>1. ~ (n - c < n - b)
          BY <3>4, <4>2
        <5>2. b > c
          BY <1>1, <3>5, <5>1
        <5> QED BY <1>3, <3>3, <4>2, <5>2
      <4>3. CASE P(c) # e
        <5>1. P(b) > P(c)
          BY <1>1, <3>3, <4>1, <4>3
        <5> QED BY <1>3, <5>1
      <4> QED BY <4>2, <4>3
    <3> QED BY <3>5
  <2>2. CASE P(p) # e
    <3> DEFINE E == {c \in seen : P(c) = P(p)}
    <3>1. E \subseteq Nat /\ E # {}
      BY <1>1
    <3>2. PICK b \in E : \A m \in E : ~ (m < b)
      BY <3>1, Least
    <3>3. \A c \in seen : P(c) = P(p) => ~ (c < b)
      BY <3>2
    <3>4. b \in seen /\ P(b) = P(p)
      BY <3>2
    <3> HIDE DEF E
    <3>5. ASSUME NEW c \in seen, c # b PROVE Behind(b, c)
      <4>1. P(c) \in Nat /\ P(p) \in Nat /\ P(c) <= P(p)
        BY <1>2, <1>4
      <4>2. CASE P(c) = P(p)
        <5>1. b < c
          BY <1>1, <3>3, <3>4, <3>5, <4>2
        <5> QED BY <1>3, <2>2, <3>4, <4>2, <5>1
      <4>3. CASE P(c) # P(p)
        <5>1. P(b) > P(c)
          BY <3>4, <4>1, <4>3
        <5> QED BY <1>3, <3>4, <5>1
      <4> QED BY <4>2, <4>3
    <3> QED BY <3>4, <3>5
  <2> QED BY <2>1, <2>2
<1>6. \E b \in seen : \A c \in seen \ {b} : Behind(b, c)
  BY <1>5
<1> QED BY <1>6, Zenon DEF LastBoard

(* The last board of the markdown is the one that was appended last. *)
LEMMA LastBoardIsNewest ==
  ASSUME DocIsSequence, BoardsInv, Len(boards) > 0, boards[Len(boards)].place = EndOf(doc)
  PROVE  LastBoard(DOMAIN boards) = Len(boards)
<1> DEFINE n == Len(boards)
<1>1. n \in Nat /\ DOMAIN boards = 1 .. n /\ n \in DOMAIN boards
  BY DEF BoardsInv
<1>2. EndOf(doc) \in Nat
  BY DEF EndOf, DocIsSequence
<1>3. \A c \in DOMAIN boards : boards[c].place \in Nat /\ boards[c].place <= EndOf(doc)
  <2>1. \A c \in DOMAIN boards : boards[c] \in Board
    BY DEF BoardsInv
  <2> QED BY <2>1 DEF BoardsInv, Board
<1>4. \A c \in DOMAIN boards \ {n} : Behind(n, c)
  BY <1>1, <1>2, <1>3 DEF Behind
<1>5. \A b \in DOMAIN boards \ {n} : ~ Behind(b, n)
  BY <1>1, <1>2, <1>3 DEF Behind
<1> QED BY <1>1, <1>4, <1>5 DEF LastBoard

(* Blocks at hand are numbers. *)
LEMMA ChartTypes ==
  ASSUME DocIsSequence, ReportInv
  PROVE  /\ EndOf(doc) \in Nat
         /\ pc \in Loop => chart \in Nat /\ chart \in Charts \ todo /\ Positions(todo)
         /\ pc = "next" => Positions(todo) /\ todo \subseteq Charts
         /\ Positions(Charts)
<1>1. Charts \subseteq DOMAIN doc /\ Positions(Charts)
  BY ChartsAreBlocks
<1>2. \A S \in SUBSET Charts : Positions(S)
  BY <1>1, ChartsAreBlocks
<1>3. \A c \in Charts : c \in Nat
  BY <1>1 DEF Positions
<1>4. EndOf(doc) \in Nat
  BY DEF EndOf, DocIsSequence
<1>5. /\ pc \in Loop => todo \in SUBSET Charts /\ chart \in Charts \ todo
      /\ pc = "next" => todo \in SUBSET Charts
  BY DEF ReportInv
<1> QED BY <1>1, <1>2, <1>3, <1>4, <1>5

(* One board more. *)
LEMMA GrownBoards ==
  ASSUME DocIsSequence, ReportInv, pc = "insert", boards \in Seq(Board),
         NEW place \in InsertPlaces
  PROVE  LET new == NewBoard(place) IN
         /\ new \in Seq(Board) /\ Len(new) = Len(boards) + 1 /\ Len(boards) \in Nat
         /\ DOMAIN new = 1 .. Len(boards) + 1 /\ DOMAIN boards = 1 .. Len(boards)
         /\ \A b \in 1 .. Len(boards) : new[b] = boards[b]
         /\ new[Len(boards) + 1].place = place
         /\ place \in Nat /\ place <= EndOf(doc)
         /\ request.position # "inline" => place = EndOf(doc)
<1>1. place \in DOMAIN doc \/ place = EndOf(doc)
  BY DEF InsertPlaces
<1>2. place \in Nat /\ place <= EndOf(doc)
  BY <1>1 DEF EndOf, DocIsSequence
<1>3. [place |-> place, holds |-> Blank] \in Board
  BY <1>2 DEF Board, Blank
<1>4. request.position # "inline" => place = EndOf(doc)
  BY DEF InsertPlaces
<1> QED BY <1>2, <1>3, <1>4 DEF NewBoard

(* A block on the board at hand, and nothing else changed. *)
LEMMA FilledBoards ==
  ASSUME boards \in Seq(Board), chart \in Nat, target \in 1 .. Len(boards)
  PROVE  /\ Filled \in Seq(Board) /\ Len(Filled) = Len(boards)
         /\ DOMAIN Filled = DOMAIN boards
         /\ \A b \in DOMAIN boards : Filled[b].place = boards[b].place
         /\ \A b \in DOMAIN boards \ {target} : Filled[b] = boards[b]
         /\ Filled[target].holds = chart
<1>1. Len(boards) \in Nat /\ DOMAIN boards = 1 .. Len(boards) /\ boards \in [1 .. Len(boards) -> Board]
  OBVIOUS
<1>2. \A b \in DOMAIN boards : boards[b] \in Board
  BY <1>1
<1>3. [boards[target] EXCEPT !.holds = chart] \in Board
      /\ [boards[target] EXCEPT !.holds = chart].place = boards[target].place
      /\ [boards[target] EXCEPT !.holds = chart].holds = chart
  BY <1>1, <1>2 DEF Board
<1>4. Filled = [boards EXCEPT ![target] = [boards[target] EXCEPT !.holds = chart]]
  BY DEF Filled
<1>5. Filled \in [1 .. Len(boards) -> Board]
  BY <1>1, <1>3, <1>4
<1>6. Filled \in Seq(Board) /\ Len(Filled) = Len(boards)
  BY <1>1, <1>5, SeqDef, LenProperties
<1> QED BY <1>1, <1>3, <1>4, <1>6

TokensInv == ReportInv /\ BoardsInv /\ TokenInv /\ PairInv

(* Steps that end the work on a chart without a result. *)
LEMMA SkipTokens ==
  ASSUME DocIsSequence, TokensInv, pc \in Loop, pc' = "next",
         UNCHANGED <<request, doc, chart, target, results, todo, blind>>,
         \/ UNCHANGED boards
         \/ pc = "insert" /\ \E place \in InsertPlaces : boards' = NewBoard(place)
         \/ pc = "push" /\ boards' = Filled
  PROVE  BoardsInv' /\ TokenInv' /\ PairInv'
<1> USE DEF TokensInv
<1>1. chart \in Nat /\ chart \in Charts \ todo /\ EndOf(doc)' = EndOf(doc)
  BY ChartTypes DEF EndOf
<1>2. /\ boards' \in Seq(Board) /\ Len(boards') >= Len(boards) /\ Len(boards) \in Nat
      /\ \A b \in DOMAIN boards' : boards'[b].place <= EndOf(doc)
      /\ \A r \in results : \/ boards'[r.token].holds = boards[r.token].holds
                           \/ boards'[r.token].holds \in blind
  <2>1. CASE UNCHANGED boards
    BY <2>1 DEF BoardsInv
  <2>2. CASE pc = "insert" /\ \E place \in InsertPlaces : boards' = NewBoard(place)
    BY <2>2, GrownBoards DEF BoardsInv
  <2>3. CASE pc = "push" /\ boards' = Filled
    <3>1. /\ target \in 1 .. Len(boards)
          /\ chart \in blind \/ \A r \in results : r.token < target
      BY <2>3 DEF TokenInv
    <3>2. \A r \in results : r.token \in DOMAIN boards
      BY DEF BoardsInv
    <3>3. \A r \in results : r.token = target => chart \in blind
      BY <3>1
    <3> QED BY <1>1, <2>3, <3>1, <3>2, <3>3, FilledBoards DEF BoardsInv
  <2> QED BY <2>1, <2>2, <2>3
<1>3. BoardsInv'
  BY <1>1, <1>2 DEF BoardsInv, Early
<1>4. TokenInv'
  BY <1>2 DEF TokenInv, VerifiedBoards
<1>5. Charts' = Charts /\ \A c : Paired(c)' = Paired(c)
  BY DEF Charts, Paired
<1>6. Cardinality(Charts) \in Nat
  BY ChartTypes, FS_CardinalityType DEF Positions
<1>7. PairInv'
  BY <1>2, <1>5, <1>6 DEF PairInv, Loop
<1> QED BY <1>3, <1>4, <1>7

(* A new board is younger than all results. *)
LEMMA InsertTokens ==
  ASSUME DocIsSequence, TokensInv, Insert, UNCHANGED todo
  PROVE  BoardsInv' /\ TokenInv' /\ PairInv'
<1> USE DEF TokensInv
<1>1. /\ pc = "insert" /\ pc' \in {"push", "locate"}
      /\ UNCHANGED <<request, doc, chart, results>> /\ blind \subseteq blind'
  BY DEF Insert
<1>2. PairInv'
  BY <1>1 DEF PairInv
<1>3. CASE boards' = boards
  <2>1. pc' = "locate" /\ chart \in blind'
    BY <1>3 DEF Insert
  <2>2. BoardsInv'
    BY <1>1, <1>3 DEF BoardsInv, EndOf, Early
  <2>3. TokenInv'
    BY <1>1, <1>3, <2>1 DEF TokenInv, VerifiedBoards
  <2> QED BY <1>2, <2>2, <2>3
<1>4. CASE boards' # boards
  <2>1. PICK place \in InsertPlaces : boards' = NewBoard(place)
    BY <1>4 DEF Insert, Inserted
  <2> DEFINE n == Len(boards)
  <2>2. /\ boards' \in Seq(Board) /\ Len(boards') = n + 1 /\ n \in Nat
        /\ DOMAIN boards' = 1 .. n + 1 /\ DOMAIN boards = 1 .. n
        /\ \A b \in 1 .. n : boards'[b] = boards[b]
        /\ boards'[n + 1].place = place
        /\ place \in Nat /\ place <= EndOf(doc)
        /\ request.position # "inline" => place = EndOf(doc)
    BY <1>1, <2>1, GrownBoards DEF BoardsInv
  <2>3. BoardsInv'
    BY <1>1, <2>2 DEF BoardsInv, EndOf, Early
  <2>4. \A r \in results : r.token \in 1 .. n /\ r.token < n + 1
    BY <2>2 DEF BoardsInv
  <2>5. VerifiedBoards'
    BY <1>1, <2>2, <2>4 DEF TokenInv, VerifiedBoards
  <2>6. pc' = "push" => target' = n + 1
    BY <2>2 DEF Insert
  <2>7. pc' = "locate" => chart \in blind' \/ boards'[n + 1].place = EndOf(doc)
    BY <2>2 DEF Insert
  <2>8. TokenInv'
    BY <1>1, <2>2, <2>4, <2>5, <2>6, <2>7 DEF TokenInv, EndOf
  <2> QED BY <1>2, <2>3, <2>8
<1> QED BY <1>3, <1>4

(* The board that is guessed is the newest, or its chart is known to be    *)
(* blind.                                                                  *)
LEMMA LocateTokens ==
  ASSUME DocIsSequence, TokensInv, Locate, UNCHANGED todo
  PROVE  BoardsInv' /\ TokenInv' /\ PairInv'
<1> USE DEF TokensInv
<1>1. PICK seen \in {DOMAIN boards, DOMAIN boards \ {Len(boards)}} \ {{}} :
         /\ target' = LastBoard(seen)
         /\ blind' = IF Len(boards) \in seen THEN blind ELSE blind \cup {chart}
  BY DEF Locate
<1>2. /\ pc = "locate" /\ pc' = "push" /\ UNCHANGED <<request, doc, boards, chart, results>>
      /\ blind \subseteq blind'
  BY <1>1 DEF Locate
<1>3. /\ boards \in Seq(Board) /\ Len(boards) \in Nat /\ DOMAIN boards = 1 .. Len(boards)
      /\ boards # <<>>
  <2>1. boards \in Seq(Board) /\ DOMAIN boards # {}
    BY <1>1 DEF BoardsInv
  <2> QED BY <2>1
<1>4. target' \in 1 .. Len(boards)
  BY <1>1, <1>3, LastBoardExists DEF BoardsInv
<1>5. chart \in blind' \/ \A r \in results : r.token < target'
  <2>1. CASE seen = DOMAIN boards /\ chart \notin blind
    <3>1. Len(boards) > 0 /\ boards[Len(boards)].place = EndOf(doc)
          /\ \A r \in results : r.token < Len(boards)
      BY <1>2, <2>1 DEF TokenInv
    <3>2. target' = Len(boards)
      BY <1>1, <2>1, <3>1, LastBoardIsNewest
    <3> QED BY <3>1, <3>2
  <2>2. CASE seen # DOMAIN boards
    BY <1>1, <2>2
  <2> QED BY <1>2, <2>1, <2>2
<1>6. BoardsInv'
  BY <1>2 DEF BoardsInv, EndOf, Early
<1>7. TokenInv'
  BY <1>2, <1>4, <1>5 DEF TokenInv, VerifiedBoards
<1>8. PairInv'
  BY <1>2 DEF PairInv
<1> QED BY <1>6, <1>7, <1>8

(* The steps of publish_chart. *)
LEMMA PublishChartTokens ==
  ASSUME DocIsSequence, TokensInv, PublishChart, UNCHANGED <<url, todo>>
  PROVE  BoardsInv' /\ TokenInv' /\ PairInv'
<1> USE DEF TokensInv
<1>1. CASE InsertFails \/ LocateFails \/ PushFails \/ VerifyFails
  BY <1>1, SkipTokens
     DEF InsertFails, Inserted, LocateFails, PushFails, VerifyFails, Skip, Loop
<1>2. CASE Insert
  BY <1>2, InsertTokens
<1>3. CASE Locate
  BY <1>3, LocateTokens
<1>4. CASE Push
  <2>1. /\ chart \in Nat /\ target \in 1 .. Len(boards)
        /\ chart \in blind \/ \A r \in results : r.token < target
    BY <1>4, ChartTypes DEF Push, Loop, TokenInv
  <2>2. /\ boards' \in Seq(Board) /\ Len(boards') = Len(boards) /\ DOMAIN boards' = DOMAIN boards
        /\ \A b \in DOMAIN boards : boards'[b].place = boards[b].place
        /\ \A b \in DOMAIN boards \ {target} : boards'[b] = boards[b]
        /\ boards'[target].holds = chart
    BY <1>4, <2>1, FilledBoards DEF Push, BoardsInv
  <2>3. BoardsInv'
    BY <1>4, <2>2 DEF Push, BoardsInv, EndOf, Early
  <2>4. \A r \in results : r.token \in DOMAIN boards /\ (r.token = target => chart \in blind)
    BY <2>1 DEF BoardsInv
  <2>5. TokenInv'
    BY <1>4, <2>1, <2>2, <2>4 DEF Push, TokenInv, VerifiedBoards
  <2>6. Charts' = Charts /\ \A c : Paired(c)' = Paired(c)
    BY <1>4 DEF Push, Charts, Paired
  <2>7. PairInv'
    BY <1>4, <2>2, <2>6 DEF Push, PairInv, Loop
  <2> QED BY <2>3, <2>5, <2>7
<1>5. CASE VerifyAnswers
  <2>1. PICK ok \in BOOLEAN :
           /\ ok => boards[target].holds = chart
           /\ results' = results \cup {[chart |-> chart, token |-> target, ok |-> ok]}
    BY <1>5 DEF VerifyAnswers
  <2>2. /\ pc = "verify" /\ pc' = "next" /\ Charts' = Charts /\ \A c : Paired(c)' = Paired(c)
        /\ UNCHANGED <<request, doc, boards, todo, blind>>
    BY <1>5 DEF VerifyAnswers, Charts, Paired
  <2>3. chart \in Charts \ todo /\ target \in 1 .. Len(boards)
    BY <2>2, ChartTypes DEF Loop, TokenInv
  <2>4. BoardsInv'
    BY <2>1, <2>2, <2>3 DEF BoardsInv, EndOf, Early
  <2>5. TokenInv'
    BY <2>1, <2>2, <2>3 DEF TokenInv, VerifiedBoards
  <2>6. PairInv'
    BY <2>1, <2>2, <2>3 DEF PairInv, Loop
  <2> QED BY <2>4, <2>5, <2>6
<1>6. CASE VerifyNotReady
  BY <1>6 DEF VerifyNotReady, BoardsInv, TokenInv, PairInv, VerifiedBoards, EndOf,
              Early, Loop, Charts, Paired
<1> QED BY <1>1, <1>2, <1>3, <1>4, <1>5, <1>6 DEF PublishChart

(* A new document, before anything is published into it. *)
LEMMA PublishedTokens ==
  ASSUME DocIsSequence, TokensInv, pc \in Early, boards' \in CreatedBoards,
         NEW answer, Published(answer), UNCHANGED <<request, doc, chart, target, tries, results>>
  PROVE  BoardsInv' /\ TokenInv' /\ PairInv'
<1>1. results' = {}
  BY DEF TokensInv, ReportInv
<1>2. pc' \in {"return", "pair", "next"} /\ (request.position = "auto" => pc' # "next")
  BY DEF Published
<1>3. boards' \in Seq(Board) /\ \A b \in DOMAIN boards' : boards'[b].place <= EndOf(doc)
  BY CreatedTypes
<1>4. BoardsInv'
  BY <1>1, <1>2, <1>3 DEF BoardsInv, EndOf, Early
<1>5. TokenInv' /\ PairInv'
  BY <1>1, <1>2 DEF TokenInv, VerifiedBoards, PairInv, Loop
<1> QED BY <1>4, <1>5

(* The next chart gets a board of its own. *)
LEMMA NextChartTokens ==
  ASSUME DocIsSequence, TokensInv, NextChart
  PROVE  BoardsInv' /\ TokenInv' /\ PairInv'
<1> USE DEF TokensInv
<1>1. pc = "next" /\ todo # {} /\ Positions(todo) /\ Positions(Charts) /\ todo \subseteq Charts
  BY ChartTypes DEF NextChart
<1>2. chart' \in todo /\ \A c \in todo : chart' <= c
  BY <1>1, FirstBlock DEF NextChart
<1>3. /\ UNCHANGED <<request, doc, boards, results, blind>> /\ todo' = todo \ {chart'}
      /\ pc' \in {"insert", "push"}
      /\ Charts' = Charts /\ \A c : Paired(c)' = Paired(c)
      /\ request.position = "auto" => target' = Paired(chart') /\ pc' = "push"
      /\ pc' = "push" => request.position = "auto"
  BY DEF NextChart, Charts, Paired
<1>4. BoardsInv'
  BY <1>1, <1>3 DEF BoardsInv, EndOf, Early
<1>5. \A c \in Charts : Paired(c) \in 1 .. Cardinality(Charts)
  BY <1>1, RankType DEF Paired, Charts
<1>6. \A c, d \in Charts : c < d => Paired(c) < Paired(d)
  BY <1>1, RankIncreases DEF Paired, Charts
<1>7. CASE request.position = "auto"
  <2>1. /\ Cardinality(Charts) <= Len(boards)
        /\ \A r \in results : r.token = Paired(r.chart) /\ r.chart \in Charts \ todo
        /\ \A r \in results, c \in todo : r.chart < c
    BY <1>1, <1>7 DEF PairInv
  <2>2. Cardinality(Charts) \in Nat /\ Len(boards) \in Nat
    BY <1>1, FS_CardinalityType DEF Positions, BoardsInv
  <2>3. target' \in 1 .. Len(boards)
    BY <1>1, <1>2, <1>3, <1>5, <1>7, <2>1, <2>2
  <2>4. \A r \in results : r.chart < chart' /\ r.token < target'
    BY <1>1, <1>2, <1>3, <1>6, <1>7, <2>1
  <2>5. TokenInv'
    BY <1>3, <2>3, <2>4 DEF TokenInv, VerifiedBoards
  <2>6. \A c \in todo' : chart' < c
    BY <1>1, <1>2, <1>3 DEF Positions
  <2>7. PairInv'
    BY <1>2, <1>3, <1>7, <2>1, <2>4, <2>6 DEF PairInv, Loop
  <2> QED BY <1>4, <2>5, <2>7
<1>8. CASE request.position # "auto"
  BY <1>3, <1>4, <1>8 DEF TokenInv, VerifiedBoards, PairInv
<1> QED BY <1>7, <1>8

(* The publication of the document. *)
LEMMA PublicationTokens ==
  ASSUME DocIsSequence, TokensInv, PublishWithCharts
  PROVE  BoardsInv' /\ TokenInv' /\ PairInv'
<1> USE DEF TokensInv
<1>1. CASE PublishViaSdk \/ PublishViaCli
  BY <1>1, PublishedTokens DEF PublishViaSdk, PublishViaCli, Early
<1>2. CASE PublishFallsBack \/ PublishRaises \/ PairFails \/ ChartsDone
  BY <1>2 DEF PublishFallsBack, PublishRaises, PairFails, ChartsDone, publisherVars, chartVars,
              BoardsInv, TokenInv, PairInv, VerifiedBoards, EndOf, Early, Loop
<1>3. CASE Pair
  <2>1. todo = Charts /\ results = {} /\ Cardinality(Charts) <= Len(boards)
    <3>1. todo = Charts /\ AccountsFor({})
      BY <1>3 DEF Pair, ReportInv
    <3>2. results = {}
      BY <3>1 DEF AccountsFor, Reported
    <3>3. Len(boards) \in Nat /\ Cardinality(Charts) \in Nat
      BY ChartTypes, FS_CardinalityType DEF Positions, BoardsInv
    <3> QED BY <1>3, <3>1, <3>2, <3>3 DEF Pair, Enough
  <2>2. pc' = "next" /\ Charts' = Charts /\ UNCHANGED <<request, doc, boards, results, todo>>
    BY <1>3 DEF Pair, publisherVars, chartVars, Charts
  <2> QED BY <2>1, <2>2 DEF BoardsInv, TokenInv, PairInv, VerifiedBoards, EndOf, Early, Loop
<1>4. CASE NextChart
  BY <1>4, NextChartTokens
<1>5. CASE PublishChart /\ UNCHANGED <<url, todo>>
  BY <1>5, PublishChartTokens
<1> QED BY <1>1, <1>2, <1>3, <1>4, <1>5 DEF PublishWithCharts

(* The whole pipeline. *)
LEMMA StepTokens ==
  ASSUME DocIsSequence, TokensInv, [Next]_vars
  PROVE  TokensInv'
<1> USE DEF TokensInv
<1>1. ReportInv'
  BY StepReport
<1>2. CASE PublishFeishu
  BY <1>1, <1>2, PublicationTokens DEF PublishFeishu
<1>3. CASE MergeAndRender
  <2>1. boards' = <<>> /\ results' = {} /\ pc' = "save"
    BY <1>3 DEF MergeAndRender, publisherVars, chartVars, BoardsInv, ReportInv, Early
  <2> QED BY <1>1, <2>1 DEF BoardsInv, TokenInv, PairInv, VerifiedBoards, Early, Loop
<1>4. CASE UNCHANGED vars
  BY <1>1, <1>4 DEF vars, publisherVars, chartVars, BoardsInv, TokenInv, PairInv, VerifiedBoards,
                    EndOf, Charts, Paired
<1>5. CASE User \/ Start \/ RefineRaises \/ SaveDocument \/ SaveRaises
           \/ PublishReturns \/ PublishFailed \/ GenerateOutput
           \/ \E i \in DOMAIN request.sources : FetchOne(i)
  <2>1. UNCHANGED <<request, doc, publisherVars>>
        /\ pc' \notin {"next"} \cup Loop /\ (pc' \in Early => pc \in Early)
    BY <1>5 DEF User, ContinueAfterConfirmation, Start, RefineRaises, FetchOne, SaveDocument,
                SaveRaises, PublishReturns, PublishFailed, GenerateOutput, Early, Loop
  <2> QED BY <1>1, <2>1 DEF publisherVars, chartVars, BoardsInv, TokenInv, PairInv,
                            VerifiedBoards, EndOf, Loop
<1> QED BY <1>2, <1>3, <1>4, <1>5 DEF Next, Publication

(* At the start there is no board. *)
LEMMA InitTokens == Init => TokensInv
<1> SUFFICES ASSUME Init PROVE TokensInv
  OBVIOUS
<1>1. ReportInv /\ boards = <<>> /\ results = {} /\ pc = "start"
  BY InitReport DEF Init
<1>2. boards \in Seq(Board) /\ DOMAIN boards = {}
  BY <1>1
<1> QED BY <1>1, <1>2 DEF TokensInv, BoardsInv, TokenInv, PairInv, VerifiedBoards, Loop

(* A verified chart stays on its board, for any document, however many     *)
(* charts and however lark-cli answers, until a chart whose board could    *)
(* not be told comes along: all other tokens are given out in increasing   *)
(* order, those that chart_publisher.py:186-197 guesses included.          *)
THEOREM VerifiedBoardsHolds == Spec => []VerifiedBoards
<1>1. TokensInv => VerifiedBoards
  BY DEF TokensInv, TokenInv
<1>2. TokensInv /\ DocIsSequence /\ [Next]_vars => TokensInv'
  BY StepTokens
<1> QED BY <1>1, <1>2, InitTokens, DocumentIsSequence, PTL DEF Spec

-----------------------------------------------------------------------------
(*                               The order                                 *)

PlacesIncrease(bs) == \A b, c \in DOMAIN bs : b < c => bs[b].place < bs[c].place

(* In "auto" boards keep the order they were created in, and charts are    *)
(* given to them in theirs.                                                *)
OrderInv ==
    request.position = "auto" =>
        /\ PlacesIncrease(boards)
        /\ \A r, s \in results : r.chart < s.chart => r.token < s.token

(* Feishu creates boards in the order of the blocks. *)
LEMMA FreshOrder ==
  ASSUME DocIsSequence, NEW bs \in CreatedBoards
  PROVE  PlacesIncrease(bs)
<1>1. PICK places \in SUBSET MermaidBlocks(doc) : bs = BoardsAt(places)
  BY DEF CreatedBoards
<1>2. Positions(places)
  BY <1>1, ChartsAreBlocks DEF MermaidBlocks
<1> DEFINE At(k) == CHOOSE i \in places : Rank(i, places) = k
<1>3. \A k \in 1 .. Cardinality(places) :
         At(k) \in places /\ At(k) \in Nat /\ Rank(At(k), places) = k
  <2> SUFFICES ASSUME NEW k \in 1 .. Cardinality(places)
               PROVE  At(k) \in places /\ At(k) \in Nat /\ Rank(At(k), places) = k
    OBVIOUS
  <2>1. \E i \in places : Rank(i, places) = k
    BY <1>2, RankExists
  <2>2. At(k) \in places /\ Rank(At(k), places) = k
    BY <2>1
  <2> QED BY <1>2, <2>2 DEF Positions
<1>4. bs = [k \in 1 .. Cardinality(places) |-> [place |-> At(k), holds |-> Blank]]
  BY <1>1 DEF BoardsAt
<1>5. Cardinality(places) \in Nat
  BY <1>2, FS_CardinalityType DEF Positions
<1> HIDE DEF At
<1>6. ASSUME NEW b \in 1 .. Cardinality(places), NEW c \in 1 .. Cardinality(places), b < c
      PROVE  At(b) < At(c)
  <2>1. At(b) # At(c)
    BY <1>3, <1>5, <1>6
  <2>2. ~(At(c) < At(b))
    <3>1. At(c) < At(b) => Rank(At(c), places) < Rank(At(b), places)
      BY <1>2, <1>3, RankIncreases
    <3> QED BY <1>3, <1>5, <1>6, <3>1
  <2> QED BY <1>3, <2>1, <2>2
<1> QED BY <1>4, <1>6 DEF PlacesIncrease

(* A chart that is reported comes behind those reported before it. *)
LEMMA AnswerOrder ==
  ASSUME DocIsSequence, TokensInv, OrderInv, VerifyAnswers
  PROVE  OrderInv'
<1> SUFFICES ASSUME request.position = "auto" PROVE OrderInv'
  BY DEF OrderInv, VerifyAnswers
<1>1. PICK ok \in BOOLEAN :
         results' = results \cup {[chart |-> chart, token |-> target, ok |-> ok]}
  BY DEF VerifyAnswers
<1>2. pc \in Loop /\ boards' = boards
  BY DEF VerifyAnswers, Loop
<1>3. chart \in Nat /\ chart \in Charts /\ Positions(Charts)
  BY <1>2, ChartTypes DEF TokensInv
<1>4. /\ target = Paired(chart)
      /\ \A r \in results : r.chart < chart /\ r.chart \in Charts /\ r.token = Paired(r.chart)
  BY <1>2 DEF TokensInv, PairInv
<1>5. \A r \in results : r.chart \in Nat /\ r.token < target
  <2>1. \A c \in Charts : c < chart => Rank(c, Charts) < Rank(chart, Charts)
    BY <1>3, RankIncreases
  <2>2. \A c \in Charts : c \in Nat
    BY <1>3 DEF Positions
  <2> QED BY <1>4, <2>1, <2>2 DEF Paired, Charts
<1>6. \A r, s \in results' : r.chart < s.chart => r.token < s.token
  <2> SUFFICES ASSUME NEW r \in results', NEW s \in results', r.chart < s.chart
               PROVE  r.token < s.token
    OBVIOUS
  <2>1. CASE r \in results /\ s \in results
    BY <2>1 DEF OrderInv
  <2>2. CASE r \in results /\ s \notin results
    BY <1>1, <1>5, <2>2
  <2>3. CASE r \notin results
    <3>1. r.chart = chart
      BY <1>1, <2>3
    <3>2. s.chart = chart \/ s.chart < chart
      BY <1>1, <1>4
    <3>3. s.chart \in Nat
      BY <1>1, <1>3, <1>5
    <3> QED BY <1>3, <3>1, <3>2, <3>3
  <2> QED BY <2>1, <2>2, <2>3
<1> QED BY <1>2, <1>6 DEF OrderInv, PlacesIncrease

(* Every step of the pipeline. *)
LEMMA StepOrder ==
  ASSUME DocIsSequence, TokensInv, OrderInv, [Next]_vars
  PROVE  OrderInv'
<1>1. CASE PublishViaSdk \/ PublishViaCli
  <2>1. boards' \in CreatedBoards /\ UNCHANGED <<request, results>> /\ results = {}
    BY <1>1 DEF PublishViaSdk, PublishViaCli, Published, TokensInv, ReportInv, Early
  <2> QED BY <2>1, FreshOrder DEF OrderInv
<1>2. CASE PublishChart
  <2>1. CASE VerifyAnswers
    BY <2>1, AnswerOrder
  <2>2. CASE PushFails \/ Push
    <3>1. pc \in Loop /\ pc = "push" /\ UNCHANGED <<request, results>>
          /\ (boards' = boards \/ boards' = Filled)
      BY <2>2 DEF PushFails, Push, Skip, Loop
    <3>2. /\ DOMAIN Filled = DOMAIN boards
          /\ \A b \in DOMAIN boards : Filled[b].place = boards[b].place
      BY <3>1, ChartTypes, FilledBoards DEF TokensInv, TokenInv, BoardsInv
    <3> QED BY <3>1, <3>2 DEF OrderInv, PlacesIncrease
  <2>3. CASE Insert \/ InsertFails \/ Locate \/ LocateFails
    BY <2>3 DEF Insert, InsertFails, Locate, LocateFails, TokensInv, PairInv, OrderInv
  <2>4. CASE VerifyNotReady \/ VerifyFails
    BY <2>4 DEF VerifyNotReady, VerifyFails, Skip, OrderInv, PlacesIncrease
  <2> QED BY <1>2, <2>1, <2>2, <2>3, <2>4 DEF PublishChart
<1>3. CASE \/ User \/ Start \/ RefineRaises \/ MergeAndRender \/ SaveDocument \/ SaveRaises
           \/ PublishReturns \/ PublishFailed \/ GenerateOutput
           \/ \E i \in DOMAIN request.sources : FetchOne(i)
           \/ PublishFallsBack \/ PublishRaises \/ PairFails \/ Pair \/ NextChart \/ ChartsDone
           \/ UNCHANGED vars
  <2>1. UNCHANGED <<request, boards, results>>
    BY <1>3 DEF User, ContinueAfterConfirmation, Start, RefineRaises, FetchOne, MergeAndRender,
                SaveDocument, SaveRaises, PublishReturns, PublishFailed, GenerateOutput,
                PublishFallsBack, PublishRaises, PairFails, Pair, NextChart, ChartsDone,
                vars, publisherVars, chartVars
  <2> QED BY <2>1 DEF OrderInv, PlacesIncrease
<1> QED BY <1>1, <1>2, <1>3 DEF Next, Publication, PublishFeishu, PublishWithCharts

(* In position "auto" the charts stand in the order of the document, each  *)
(* on a board of its own, whatever boards Feishu made or left out beside   *)
(* them (feishu_publisher.py:324-332).                                     *)
THEOREM ChartsInOrderHolds == Spec => []ChartsInOrder
<1>1. Init => OrderInv
  <2> SUFFICES ASSUME Init PROVE OrderInv
    OBVIOUS
  <2>1. boards = <<>> /\ results = {}
    BY DEF Init
  <2>2. DOMAIN boards = {}
    BY <2>1
  <2> QED BY <2>1, <2>2 DEF OrderInv, PlacesIncrease
<1>2. TokensInv /\ DocIsSequence /\ OrderInv /\ [Next]_vars => OrderInv'
  BY StepOrder
<1>3. TokensInv /\ DocIsSequence /\ [Next]_vars => TokensInv'
  BY StepTokens
<1>4. TokensInv /\ OrderInv => ChartsInOrder
  <2> SUFFICES ASSUME TokensInv, OrderInv, request.position = "auto",
                      NEW r \in results, NEW s \in results, r.chart < s.chart
               PROVE  boards[r.token].place < boards[s.token].place
    BY DEF ChartsInOrder
  <2>1. boards \in Seq(Board) /\ r.token \in 1 .. Len(boards) /\ s.token \in 1 .. Len(boards)
    BY DEF TokensInv, BoardsInv
  <2>2. r.token \in DOMAIN boards /\ s.token \in DOMAIN boards
    BY <2>1
  <2> QED BY <2>2 DEF OrderInv, PlacesIncrease
<1> QED BY <1>1, <1>2, <1>3, <1>4, InitTokens, DocumentIsSequence, PTL DEF Spec

-----------------------------------------------------------------------------
(*                                 The URL                                 *)

(* What is published is on the disk, and its URL is passed on. *)
UrlInv ==
    /\ pc \in Early => url = "" /\ feishuUrl = ""
    /\ pc \in {"publish", "cli", "unpublished", "pair", "next"} \cup Loop \cup Ended => savedDoc = doc
    /\ pc = "output" => feishuUrl = url
    /\ UrlSurvives

(* Whatever becomes of the charts, run() answers with the URL of the       *)
(* document that was created (doc_output.py:352-367).                      *)
THEOREM UrlSurvivesHolds == Spec => []UrlSurvives
<1> USE DEF UrlInv, Early, Loop, Ended, UrlSurvives
<1>1. Init => UrlInv
  BY DEF Init
<1>2. ASSUME UrlInv, [Next]_vars PROVE UrlInv'
  <2>1. CASE User \/ Start \/ RefineRaises \/ MergeAndRender \/ SaveDocument \/ SaveRaises
             \/ \E i \in DOMAIN request.sources : FetchOne(i)
    <3>1. CASE SaveDocument
      BY <1>2, <3>1 DEF SaveDocument, publisherVars
    <3>2. CASE User \/ Start \/ RefineRaises \/ \E i \in DOMAIN request.sources : FetchOne(i)
      BY <1>2, <3>2 DEF User, ContinueAfterConfirmation, Start, RefineRaises, FetchOne,
                        publisherVars, docVars
    <3>3. CASE MergeAndRender \/ SaveRaises
      BY <1>2, <3>3 DEF MergeAndRender, SaveRaises, publisherVars, docVars
    <3> QED BY <2>1, <3>1, <3>2, <3>3
  <2>2. CASE PublishFeishu
    <3>1. UNCHANGED <<doc, docVars>> /\ pc \in {"publish", "cli", "pair", "next"} \cup Loop
      BY <2>2 DEF PublishFeishu, PublishWithCharts, PublishViaSdk, PublishFallsBack,
                  PublishViaCli, PublishRaises, PairFails, Pair, NextChart, ChartsDone,
                  PublishChart, InsertFails, Insert, LocateFails, Locate, PushFails, Push,
                  VerifyAnswers, VerifyNotReady, VerifyFails
    <3>2. pc' \in {"cli", "unpublished"} => pc \in {"publish", "cli"} /\ url' = url
      BY <2>2 DEF PublishFeishu, PublishWithCharts, PublishViaSdk, PublishFallsBack,
                  PublishViaCli, PublishRaises, PairFails, Pair, NextChart, ChartsDone, Published,
                  PublishChart, InsertFails, Insert, LocateFails, Locate, PushFails, Push, Skip,
                  VerifyAnswers, VerifyNotReady, VerifyFails, publisherVars
    <3>3. pc' \in {"cli", "unpublished", "pair", "next", "return"} \cup Loop
      BY <2>2 DEF PublishFeishu, PublishWithCharts, PublishViaSdk, PublishFallsBack,
                  PublishViaCli, PublishRaises, PairFails, Pair, NextChart, ChartsDone, Published,
                  PublishChart, InsertFails, Insert, LocateFails, Locate, PushFails, Push, Skip,
                  VerifyAnswers, VerifyNotReady, VerifyFails
    <3> QED BY <1>2, <3>1, <3>2, <3>3 DEF docVars
  <2>3. CASE PublishReturns \/ PublishFailed \/ GenerateOutput
    <3>1. CASE PublishReturns \/ PublishFailed
      BY <1>2, <3>1 DEF PublishReturns, PublishFailed, publisherVars
    <3>2. CASE GenerateOutput
      <4>1. output'.url = feishuUrl /\ pc = "output" /\ pc' = "done"
            /\ UNCHANGED <<url, doc, savedDoc, feishuUrl>>
        BY <3>2 DEF GenerateOutput, publisherVars
      <4> QED BY <1>2, <4>1
    <3> QED BY <2>3, <3>1, <3>2
  <2>4. CASE UNCHANGED vars
    BY <1>2, <2>4 DEF vars, publisherVars, docVars
  <2> QED BY <1>2, <2>1, <2>2, <2>3, <2>4 DEF Next, Publication
<1>3. UrlInv => UrlSurvives
  OBVIOUS
<1> QED BY <1>1, <1>2, <1>3, PTL DEF Spec

-----------------------------------------------------------------------------
(*                                The types                                *)

Boards == [place : 1 .. EndOf(doc), holds : {Blank} \cup DOMAIN doc]
Waiting == {"start", "asked", "revision", "fetch"}

(* While there is no document nothing refers to its blocks, and a block is *)
(* pushed to a board that exists.                                          *)
TypeInv ==
    /\ TypeOK
    /\ pc \in Waiting =>
          boards = <<>> /\ chart = 0 /\ results = {} /\ skipped = {} /\ todo = {} /\ blind = {}
    /\ pc \in Loop => chart \in DOMAIN doc
    /\ pc \in {"push", "verify"} => target \in DOMAIN boards
    /\ request.position = "auto" =>
          /\ pc \notin {"insert", "locate"}
          /\ pc \in {"next"} \cup Loop => Cardinality(Charts) <= Len(boards)

(* Fresh boards are at blocks, and blank. *)
LEMMA FreshBoards ==
  ASSUME DocIsSequence, NEW bs \in CreatedBoards
  PROVE  bs \in Seq(Boards)
<1>1. PICK places \in SUBSET MermaidBlocks(doc) : bs = BoardsAt(places)
  BY DEF CreatedBoards
<1>2. places \subseteq DOMAIN doc /\ Positions(places)
  BY <1>1, ChartsAreBlocks DEF MermaidBlocks
<1>3. Cardinality(places) \in Nat
  BY <1>2, FS_CardinalityType DEF Positions
<1> DEFINE At(k) == CHOOSE i \in places : Rank(i, places) = k
<1>4. \A k \in 1 .. Cardinality(places) : At(k) \in 1 .. EndOf(doc)
  <2>1. \A k \in 1 .. Cardinality(places) : At(k) \in places
    BY <1>2, RankExists
  <2>2. DOMAIN doc \subseteq 1 .. EndOf(doc)
    BY DEF DocIsSequence, EndOf
  <2> QED BY <1>2, <2>1, <2>2
<1>5. bs = [k \in 1 .. Cardinality(places) |-> [place |-> At(k), holds |-> Blank]]
  BY <1>1 DEF BoardsAt
<1> HIDE DEF At
<1>6. \A k \in 1 .. Cardinality(places) : [place |-> At(k), holds |-> Blank] \in Boards
  BY <1>4 DEF Boards
<1> QED BY <1>3, <1>5, <1>6, IsASeq

(* A new board. *)
LEMMA NewBoardType ==
  ASSUME DocIsSequence, boards \in Seq(Boards), NEW place \in InsertPlaces
  PROVE  /\ NewBoard(place) \in Seq(Boards) /\ Len(NewBoard(place)) = Len(boards) + 1
         /\ Len(boards) \in Nat /\ DOMAIN boards \subseteq DOMAIN NewBoard(place)
<1>1. place \in 1 .. EndOf(doc)
  BY DEF InsertPlaces, DocIsSequence, EndOf
<1>2. [place |-> place, holds |-> Blank] \in Boards
  BY <1>1 DEF Boards
<1> QED BY <1>2, AppendProperties DEF NewBoard

(* A board with another block on it. *)
LEMMA FilledType ==
  ASSUME boards \in Seq(Boards), target \in DOMAIN boards, chart \in DOMAIN doc
  PROVE  Filled \in Seq(Boards) /\ DOMAIN Filled = DOMAIN boards /\ Len(Filled) = Len(boards)
<1>1. /\ Len(boards) \in Nat /\ DOMAIN boards = 1 .. Len(boards)
      /\ boards[target] \in Boards /\ target \in 1 .. Len(boards)
  BY ElementOfSeq
<1>2. [boards[target] EXCEPT !.holds = chart] \in Boards
  BY <1>1 DEF Boards
<1>3. Filled = [boards EXCEPT ![target] = [boards[target] EXCEPT !.holds = chart]]
  BY DEF Filled
<1> QED BY <1>1, <1>2, <1>3, ExceptSeq

(* The types hold at the start. *)
LEMMA InitTypes == Init => TypeInv
<1> SUFFICES ASSUME Init PROVE TypeInv
  OBVIOUS
<1>1. /\ doc = <<>> /\ boards = <<>> /\ chart = 0 /\ target = 0 /\ tries = 0 /\ results = {}
      /\ skipped = {} /\ blind = {} /\ todo = {} /\ pc = "start" /\ url = "" /\ feishuUrl = ""
      /\ request \in Requests /\ choice = None
  BY DEF Init
<1>2. DocIsSequence /\ <<>> \in Seq([place : 1 .. EndOf(doc), holds : {Blank} \cup DOMAIN doc])
  <2>1. Len(<<>>) = 0 /\ DOMAIN <<>> = 1 .. 0
    OBVIOUS
  <2>2. Len(doc) = 0 /\ DOMAIN doc = 1 .. 0
    BY <1>1, <2>1
  <2> QED BY <2>2 DEF DocIsSequence
<1>3. TypeOK
  <2>1. 0 \in 0 .. MaxQueries - 1
    BY DEF MaxQueries
  <2> QED BY <1>1, <1>2, <2>1 DEF TypeOK
<1> QED BY <1>1, <1>3 DEF TypeInv, Waiting, Loop

(* A step that changes neither the document nor the URLs keeps the types   *)
(* if it does so for what it changes.                                      *)
LEMMA SameDocument ==
  ASSUME TypeOK, UNCHANGED <<request, doc, feishuUrl, choice>>,
         pc' \in {"start", "asked", "revision", "fetch", "raised"} \cup Rendered,
         boards' \in Seq(Boards), DOMAIN boards \subseteq DOMAIN boards',
         chart' \in {0} \cup DOMAIN doc, target' \in Nat, tries' \in 0 .. MaxQueries - 1,
         \A r \in results' \ results :
            r \in [chart : DOMAIN doc, token : DOMAIN boards, ok : BOOLEAN],
         skipped' \subseteq {Star} \cup DOMAIN doc, url' \in {"docx", "text", ""},
         todo' \subseteq DOMAIN doc, blind' \subseteq DOMAIN doc
  PROVE  TypeOK'
<1>1. Boards' = Boards /\ DocIsSequence'
  BY DEF Boards, EndOf, DocIsSequence, TypeOK
<1>2. boards' \in Seq(Boards')
  BY <1>1
<1>3. ASSUME NEW r \in results'
      PROVE  r \in [chart : DOMAIN doc, token : DOMAIN boards', ok : BOOLEAN]
  <2>1. results \subseteq [chart : DOMAIN doc, token : DOMAIN boards, ok : BOOLEAN]
    BY DEF TypeOK
  <2>2. r \in [chart : DOMAIN doc, token : DOMAIN boards, ok : BOOLEAN]
    BY <1>3, <2>1
  <2>3. r.token \in DOMAIN boards'
    BY <2>2
  <2> QED BY <2>2, <2>3
<1> QED BY <1>1, <1>2, <1>3 DEF TypeOK, Boards

(* The steps of publish_chart. *)
LEMMA PublishChartTypes ==
  ASSUME TypeInv, ReportInv, BoardsInv, PublishChart, UNCHANGED <<url, todo, docVars>>
  PROVE  TypeInv'
<1>1. /\ pc \in Loop /\ chart \in DOMAIN doc /\ chart \in Nat /\ DocIsSequence
      /\ boards \in Seq(Boards) /\ DOMAIN boards = 1 .. Len(boards) /\ Len(boards) \in Nat
      /\ TypeOK
  <2>1. pc \in Loop
    BY DEF PublishChart, InsertFails, Insert, LocateFails, Locate, PushFails, Push,
           VerifyAnswers, VerifyNotReady, VerifyFails, Loop
  <2>2. TypeOK /\ chart \in DOMAIN doc /\ DocIsSequence /\ boards \in Seq(Boards)
    BY <2>1 DEF TypeInv, TypeOK, Boards
  <2> QED BY <2>1, <2>2 DEF DocIsSequence
<1>2. /\ UNCHANGED <<request, doc, feishuUrl, choice, url, todo>> /\ Charts' = Charts
      /\ pc' \in {"next"} \cup Loop
      /\ chart' = chart
  BY DEF PublishChart, InsertFails, Insert, LocateFails, Locate, PushFails, Push, Skip,
         VerifyAnswers, VerifyNotReady, VerifyFails, Loop, Charts, docVars
<1>3. /\ boards' \in Seq(Boards) /\ DOMAIN boards \subseteq DOMAIN boards'
      /\ Len(boards') \in Nat /\ Len(boards') >= Len(boards)
      /\ DOMAIN boards' = 1 .. Len(boards')
  <2>1. CASE boards' = boards
    BY <1>1, <2>1
  <2>2. CASE boards' \in Inserted
    BY <1>1, <2>2, NewBoardType DEF Inserted
  <2>3. CASE pc = "push" /\ boards' = Filled
    <3>1. target \in DOMAIN boards
      BY <2>3 DEF TypeInv
    <3> QED BY <1>1, <2>3, <3>1, FilledType
  <2> QED BY <2>1, <2>2, <2>3
          DEF PublishChart, InsertFails, Insert, LocateFails, Locate, PushFails, Push,
              VerifyAnswers, VerifyNotReady, VerifyFails
<1>4. /\ target' \in Nat
      /\ pc' \in {"push", "verify"} => target' \in DOMAIN boards'
  <2>1. CASE Insert
    <3>1. boards' # boards => Len(boards') = Len(boards) + 1
      BY <1>1, <2>1, NewBoardType DEF Insert, Inserted
    <3>2. target \in Nat
      BY <1>1 DEF TypeOK
    <3>3. \/ boards' # boards /\ target' = Len(boards')
          \/ pc' = "locate" /\ target' = target
      BY <2>1 DEF Insert
    <3>4. boards' # boards => Len(boards') \in DOMAIN boards'
      BY <1>1, <1>3, <3>1
    <3> QED BY <1>3, <3>2, <3>3, <3>4
  <2>2. CASE Locate
    <3>1. PICK seen \in SUBSET (DOMAIN boards) : seen # {} /\ target' = LastBoard(seen)
      BY <2>2 DEF Locate
    <3>2. boards \in Seq(Board) /\ \A b \in DOMAIN boards : boards[b].place <= EndOf(doc)
      BY DEF BoardsInv
    <3>3. target' \in DOMAIN boards
      BY <1>1, <3>1, <3>2, LastBoardExists
    <3> QED BY <1>1, <2>2, <3>3 DEF Locate
  <2>3. CASE Push \/ VerifyNotReady
    <3>1. target \in DOMAIN boards /\ target' = target
      BY <2>3 DEF Push, VerifyNotReady, TypeInv
    <3> QED BY <1>1, <1>3, <3>1
  <2>4. CASE InsertFails \/ LocateFails \/ PushFails \/ VerifyAnswers \/ VerifyFails
    BY <1>1, <2>4 DEF InsertFails, LocateFails, PushFails, VerifyAnswers, VerifyFails, Skip, TypeOK
  <2> QED BY <2>1, <2>2, <2>3, <2>4 DEF PublishChart
<1>5. tries' \in 0 .. MaxQueries - 1
  <2>1. tries \in 0 .. MaxQueries - 1
    BY <1>1 DEF TypeOK
  <2>2. tries' \in {tries, 0} \/ (tries + 1 < MaxQueries /\ tries' = tries + 1)
    BY DEF PublishChart, InsertFails, Insert, LocateFails, Locate, PushFails, Push,
           VerifyAnswers, VerifyNotReady, VerifyFails
  <2> QED BY <2>1, <2>2 DEF MaxQueries
<1>6. \A r \in results' \ results :
         r \in [chart : DOMAIN doc, token : DOMAIN boards, ok : BOOLEAN]
  <2>1. CASE VerifyAnswers
    <3>1. target \in DOMAIN boards
      BY <2>1 DEF VerifyAnswers, TypeInv
    <3> QED BY <1>1, <2>1, <3>1 DEF VerifyAnswers
  <2>2. CASE results' = results
    BY <2>2
  <2> QED BY <2>1, <2>2 DEF PublishChart, InsertFails, Insert, LocateFails, Locate, PushFails,
                            Push, VerifyNotReady, VerifyFails
<1>7. skipped' \subseteq {Star} \cup DOMAIN doc /\ blind' \subseteq DOMAIN doc
  BY <1>1 DEF PublishChart, InsertFails, Insert, LocateFails, Locate, PushFails, Push, Skip,
              VerifyAnswers, VerifyNotReady, VerifyFails, TypeOK
<1>8. TypeOK'
  <2>1. url' \in {"docx", "text", ""} /\ todo' \subseteq DOMAIN doc
    BY <1>1, <1>2 DEF TypeOK
  <2>2. pc' \in {"start", "asked", "revision", "fetch", "raised"} \cup Rendered
    BY <1>2 DEF Loop, Rendered, Publishing
  <2> QED BY <1>1, <1>2, <1>3, <1>4, <1>5, <1>6, <1>7, <2>1, <2>2, SameDocument
<1>9. request.position = "auto" =>
         pc' \notin {"insert", "locate"} /\ Cardinality(Charts) <= Len(boards')
  <2> SUFFICES ASSUME request.position = "auto"
               PROVE  pc' \notin {"insert", "locate"} /\ Cardinality(Charts) <= Len(boards')
    OBVIOUS
  <2>1. pc \notin {"insert", "locate"} /\ Cardinality(Charts) <= Len(boards)
    BY <1>1 DEF TypeInv
  <2>2. Cardinality(Charts) \in Nat
    BY <1>1, ChartsAreBlocks, FS_CardinalityType DEF Positions
  <2>3. pc' \notin {"insert", "locate"}
    BY <2>1 DEF PublishChart, InsertFails, Insert, LocateFails, Locate, PushFails, Push, Skip,
                VerifyAnswers, VerifyNotReady, VerifyFails
  <2> QED BY <1>1, <1>3, <2>1, <2>2, <2>3
<1> QED BY <1>1, <1>2, <1>4, <1>8, <1>9 DEF TypeInv, Waiting, Loop

(* What publish() creates and answers. *)
LEMMA PublishedTypes ==
  ASSUME TypeInv, ReportInv, pc \in {"publish", "cli"}, boards' \in CreatedBoards,
         NEW answer \in {"docx", "text", ""}, Published(answer),
         UNCHANGED <<request, doc, chart, target, tries, results, blind, docVars>>
  PROVE  TypeInv'
<1>1. TypeOK /\ DocIsSequence /\ results = {} /\ results' = {}
  BY DEF TypeInv, TypeOK, ReportInv, Early
<1>2. boards' \in Seq(Boards)
  BY <1>1, FreshBoards
<1>3. /\ pc' \in {"return", "pair", "next"} /\ skipped' \subseteq {Star} \cup DOMAIN doc
      /\ url' \in {"docx", "text", ""} /\ todo' \subseteq DOMAIN doc
      /\ request.position = "auto" => pc' # "next"
  <2>1. /\ skipped \subseteq {Star} \cup DOMAIN doc /\ todo \subseteq DOMAIN doc
        /\ ChartsOf(doc, request.position) \subseteq DOMAIN doc
    BY <1>1, ChartsAreBlocks DEF TypeOK, Charts
  <2> QED BY <2>1 DEF Published
<1>4. TypeOK'
  <2>1. Boards' = Boards /\ DocIsSequence'
    BY <1>1 DEF Boards, EndOf, DocIsSequence
  <2> QED BY <1>1, <1>2, <1>3, <2>1 DEF TypeOK, Boards, docVars, Rendered, Publishing, Ended
<1> QED BY <1>3, <1>4 DEF TypeInv, Waiting, Loop

(* The publication of the document. *)
LEMMA PublicationTypes ==
  ASSUME TypeInv, ReportInv, BoardsInv, PublishWithCharts, UNCHANGED docVars
  PROVE  TypeInv'
<1>0. /\ TypeOK /\ DocIsSequence /\ boards \in Seq(Boards)
      /\ DOMAIN boards = 1 .. Len(boards) /\ Len(boards) \in Nat
  <2>1. TypeOK /\ DocIsSequence /\ boards \in Seq(Boards)
    BY DEF TypeInv, TypeOK, Boards
  <2> QED BY <2>1
<1>1. CASE PublishViaSdk \/ PublishViaCli
  BY <1>1, PublishedTypes DEF PublishViaSdk, PublishViaCli
<1>2. CASE PublishFallsBack \/ PublishRaises \/ PairFails \/ ChartsDone
  <2>1. /\ pc' \in {"cli", "unpublished", "return"}
        /\ UNCHANGED <<request, doc, boards, chart, target, tries, results, url, todo, blind>>
        /\ skipped' \in {skipped, {Star}}
    BY <1>2 DEF PublishFallsBack, PublishRaises, PairFails, ChartsDone, publisherVars, chartVars
  <2>2. TypeOK'
    <3>1. /\ boards' \in Seq(Boards) /\ skipped' \subseteq {Star} \cup DOMAIN doc
          /\ pc' \in {"start", "asked", "revision", "fetch", "raised"} \cup Rendered
          /\ UNCHANGED <<feishuUrl, choice>>
      BY <1>0, <2>1 DEF TypeOK, docVars, Rendered, Ended
    <3>2. /\ chart' \in {0} \cup DOMAIN doc /\ target' \in Nat /\ tries' \in 0 .. MaxQueries - 1
          /\ url' \in {"docx", "text", ""} /\ todo' \subseteq DOMAIN doc
          /\ blind' \subseteq DOMAIN doc
          /\ DOMAIN boards \subseteq DOMAIN boards' /\ results' \ results = {}
      BY <1>0, <2>1 DEF TypeOK
    <3> QED BY <1>0, <2>1, <3>1, <3>2, SameDocument
  <2> QED BY <2>1, <2>2 DEF TypeInv, Waiting, Loop
<1>3. CASE Pair
  <2>1. /\ pc = "pair" /\ pc' = "next" /\ Enough /\ Charts' = Charts
        /\ UNCHANGED <<request, doc, publisherVars>>
    BY <1>3 DEF Pair, Charts
  <2>2. UNCHANGED <<boards, chart, target, tries, results, skipped, blind, url, todo,
                    feishuUrl, choice>>
    BY <2>1 DEF publisherVars, chartVars, docVars
  <2>3. TypeOK'
    BY <1>0, <2>1, <2>2 DEF TypeOK, DocIsSequence, EndOf, Rendered, Publishing
  <2>4. todo = Charts /\ Cardinality(Charts) \in Nat
    BY <1>0, <2>1, ChartsAreBlocks, FS_CardinalityType DEF ReportInv, Positions
  <2>5. Cardinality(Charts') <= Len(boards')
    BY <1>0, <2>1, <2>2, <2>4 DEF Enough
  <2> QED BY <2>1, <2>3, <2>5 DEF TypeInv, Waiting, Loop
<1>4. CASE NextChart
  <2>1. /\ pc = "next" /\ todo # {} /\ todo \subseteq Charts /\ Charts \subseteq DOMAIN doc
        /\ Positions(todo) /\ Positions(Charts)
    BY <1>0, <1>4, ChartsAreBlocks DEF NextChart, ReportInv
  <2>2. chart' \in todo /\ chart' \in Charts /\ chart' \in DOMAIN doc
    BY <1>4, <2>1, FirstBlock DEF NextChart
  <2>3. /\ UNCHANGED <<request, doc, boards, tries, results, skipped, blind, url, feishuUrl,
                       choice>>
        /\ todo' = todo \ {chart'} /\ Charts' = Charts
        /\ request.position = "auto" => pc' = "push" /\ target' = Paired(chart')
        /\ request.position # "auto" => pc' = "insert" /\ target' = target
    BY <1>4 DEF NextChart, Charts, docVars
  <2>4. /\ target' \in Nat
        /\ request.position = "auto" =>
              target' \in DOMAIN boards /\ Cardinality(Charts) <= Len(boards)
    <3>1. Paired(chart') \in 1 .. Cardinality(Charts) /\ Cardinality(Charts) \in Nat
      BY <2>1, <2>2, RankType DEF Paired, Charts
    <3>2. target \in Nat /\ (request.position = "auto" => Cardinality(Charts) <= Len(boards))
      BY <2>1 DEF TypeInv, TypeOK
    <3> QED BY <1>0, <2>3, <3>1, <3>2
  <2>5. pc' \in {"push", "insert"}
    BY <2>3
  <2>6. TypeOK'
    <3>1. todo' \subseteq DOMAIN doc
      BY <2>1, <2>3
    <3> QED BY <1>0, <2>2, <2>3, <2>4, <2>5, <3>1
            DEF TypeOK, DocIsSequence, EndOf, Rendered, Publishing
  <2> QED BY <2>2, <2>3, <2>4, <2>5, <2>6 DEF TypeInv, Waiting, Loop
<1>5. CASE PublishChart /\ UNCHANGED <<url, todo>>
  BY <1>5, PublishChartTypes
<1> QED BY <1>1, <1>2, <1>3, <1>4, <1>5 DEF PublishWithCharts

(* Every step of the pipeline keeps the types. *)
LEMMA StepTypes ==
  ASSUME TypeInv, ReportInv, BoardsInv, DocIsSequence', [Next]_vars
  PROVE  TypeInv'
<1>0. TypeOK
  BY DEF TypeInv
<1>1. CASE MergeAndRender
  <2>1. /\ pc = "fetch" /\ pc' = "save" /\ UNCHANGED <<request, publisherVars, docVars>>
        /\ boards = <<>> /\ chart = 0 /\ results = {} /\ skipped = {} /\ todo = {} /\ blind = {}
    BY <1>1 DEF MergeAndRender, TypeInv, Waiting
  <2>2. /\ boards' = <<>> /\ chart' = 0 /\ results' = {} /\ skipped' = {} /\ todo' = {}
        /\ blind' = {}
        /\ UNCHANGED <<target, tries, url, feishuUrl, choice>>
    BY <2>1 DEF publisherVars, chartVars, docVars
  <2>3. boards' \in Seq([place : 1 .. EndOf(doc), holds : {Blank} \cup DOMAIN doc])'
    BY <2>2
  <2>4. TypeOK'
    BY <1>0, <2>1, <2>2, <2>3 DEF TypeOK, Rendered
  <2> QED BY <2>1, <2>4 DEF TypeInv, Waiting, Loop
<1>2. CASE PublishFeishu
  BY <1>2, PublicationTypes DEF PublishFeishu
<1>3. ASSUME UNCHANGED <<request, doc, publisherVars>>,
             pc' \in {"start", "asked", "revision", "fetch", "raised"} \cup Rendered,
             feishuUrl' \in {"docx", "text", ""},
             choice' \in {None} \cup Replies,
             \/ pc' = pc
             \/ pc' \notin {"next"} \cup Loop /\ (pc' \in Waiting => pc \in Waiting)
      PROVE  TypeInv'
  <2>1. UNCHANGED <<boards, chart, target, tries, results, skipped, blind, url, todo>>
        /\ Charts' = Charts
    BY <1>3 DEF publisherVars, chartVars, Charts
  <2>2. TypeOK'
    BY <1>0, <1>3, <2>1 DEF TypeOK, EndOf
  <2>3. pc \in Waiting =>
           boards = <<>> /\ chart = 0 /\ results = {} /\ skipped = {} /\ todo = {} /\ blind = {}
    BY DEF TypeInv
  <2>4. CASE pc' = pc
    BY <1>3, <2>1, <2>2, <2>4 DEF TypeInv
  <2>5. CASE pc' \notin {"next"} \cup Loop /\ (pc' \in Waiting => pc \in Waiting)
    BY <2>1, <2>2, <2>3, <2>5 DEF TypeInv, Loop
  <2> QED BY <1>3, <2>4, <2>5
<1>4. CASE User \/ Start \/ RefineRaises \/ SaveDocument \/ SaveRaises
           \/ \E i \in DOMAIN request.sources : FetchOne(i)
  <2>1. UNCHANGED <<request, doc, publisherVars, feishuUrl>>
    BY <1>4 DEF User, ContinueAfterConfirmation, Start, RefineRaises, FetchOne, SaveDocument,
                SaveRaises, docVars
  <2>2. choice' \in {None} \cup Replies
    BY <1>0, <1>4 DEF User, ContinueAfterConfirmation, Start, RefineRaises, FetchOne,
                      SaveDocument, SaveRaises, docVars, TypeOK
  <2>3. \/ pc' = pc
        \/ /\ pc' \in {"asked", "revision", "fetch", "raised", "publish", "output"}
           /\ pc' \in Waiting => pc \in Waiting
    BY <1>4 DEF User, ContinueAfterConfirmation, Start, RefineRaises, FetchOne, SaveDocument,
                SaveRaises, Waiting
  <2>4. /\ pc' \in {"start", "asked", "revision", "fetch", "raised"} \cup Rendered
        /\ \/ pc' = pc
           \/ pc' \notin {"next"} \cup Loop /\ (pc' \in Waiting => pc \in Waiting)
    BY <1>0, <2>3 DEF TypeOK, Rendered, Publishing, Ended, Loop
  <2>5. feishuUrl' \in {"docx", "text", ""}
    BY <1>0, <2>1 DEF TypeOK
  <2> QED BY <1>3, <2>1, <2>2, <2>4, <2>5
<1>5. CASE PublishReturns \/ PublishFailed \/ GenerateOutput \/ UNCHANGED vars
  <2>1. /\ UNCHANGED <<request, doc, publisherVars, choice>>
        /\ feishuUrl' \in {feishuUrl, url, ""} /\ pc' \in {pc, "output", "done"}
    BY <1>5 DEF PublishReturns, PublishFailed, GenerateOutput, vars, docVars
  <2>2. /\ pc' \in {"start", "asked", "revision", "fetch", "raised"} \cup Rendered
        /\ \/ pc' = pc
           \/ pc' \notin {"next"} \cup Loop /\ (pc' \in Waiting => pc \in Waiting)
    BY <1>0, <2>1 DEF TypeOK, Rendered, Ended, Loop, Waiting
  <2>3. /\ feishuUrl' \in {"docx", "text", ""}
        /\ choice' \in {None} \cup Replies
    BY <1>0, <2>1 DEF TypeOK
  <2> QED BY <1>3, <2>1, <2>2, <2>3
<1> QED BY <1>1, <1>2, <1>4, <1>5 DEF Next, Publication

(* The types hold for any requests and answers; a block is pushed to a     *)
(* board that exists, whichever way its token was found.                   *)
THEOREM DocumentTypeCorrect == Spec => []TypeOK
<1>1. TypeInv => TypeOK
  BY DEF TypeInv
<1>2. TokensInv /\ DocIsSequence /\ [Next]_vars => TokensInv'
  BY StepTokens
<1>3. TypeInv /\ TokensInv /\ DocIsSequence' /\ [Next]_vars => TypeInv'
  BY StepTypes DEF TokensInv
<1> QED BY <1>1, <1>2, <1>3, InitTokens, InitTypes, DocumentIsSequence, PTL DEF Spec

-----------------------------------------------------------------------------
(*                               The places                                *)

(* A block is pushed to a board in its place, and "auto" has a board at    *)
(* every block before the first push.                                      *)
PlaceInv ==
    /\ pc = "pair" => boards \in CreatedBoards
    /\ pc = "locate" => chart \in blind \/ request.position = "append"
    /\ Aligned =>
          /\ pc \in {"push", "verify"} => chart \in blind \/ boards[target].place = Place(chart)
          /\ request.position = "auto" /\ pc \in {"next"} \cup Loop =>
                \A c \in Charts : boards[Paired(c)].place = c
          /\ \A r \in results : r.chart \in blind \/ boards[r.token].place = Place(r.chart)

(* A block is found by its rank. *)
LEMMA RankTells ==
  ASSUME NEW S, Positions(S), NEW c \in S
  PROVE  (CHOOSE i \in S : Rank(i, S) = Rank(c, S)) = c
<1>1. \A i \in S : Rank(i, S) = Rank(c, S) => i = c
  <2> SUFFICES ASSUME NEW i \in S, Rank(i, S) = Rank(c, S), i # c PROVE FALSE
    OBVIOUS
  <2>1. i \in Nat /\ c \in Nat
    BY DEF Positions
  <2>2. Rank(i, S) \in Nat
    BY RankType
  <2>3. CASE i < c
    BY <2>2, <2>3, RankIncreases
  <2>4. CASE c < i
    BY <2>2, <2>4, RankIncreases
  <2> QED BY <2>1, <2>3, <2>4
<1> QED BY <1>1, Zenon

(* The boards of a fresh document stand at different blocks, in order. *)
LEMMA FreshPlaces ==
  ASSUME DocIsSequence, NEW places \in SUBSET MermaidBlocks(doc), boards = BoardsAt(places)
  PROVE  /\ Positions(places) /\ Len(boards) = Cardinality(places)
         /\ \A c \in places : /\ Rank(c, places) \in DOMAIN boards
                              /\ boards[Rank(c, places)].place = c
<1> DEFINE At(k) == CHOOSE i \in places : Rank(i, places) = k
<1>1. Positions(places) /\ Cardinality(places) \in Nat
  <2>1. Positions(places)
    BY ChartsAreBlocks DEF MermaidBlocks
  <2> QED BY <2>1, FS_CardinalityType DEF Positions
<1>2. boards = [k \in 1 .. Cardinality(places) |-> [place |-> At(k), holds |-> Blank]]
  BY DEF BoardsAt
<1>3. Len(boards) = Cardinality(places)
  <2>1. boards \in Seq(Boards)
    BY FreshBoards DEF CreatedBoards
  <2>2. DOMAIN boards = 1 .. Len(boards) /\ Len(boards) \in Nat
    BY <2>1
  <2>3. DOMAIN boards = 1 .. Cardinality(places)
    BY <1>2
  <2> QED BY <1>1, <2>2, <2>3
<1>4. ASSUME NEW c \in places
      PROVE  Rank(c, places) \in DOMAIN boards /\ boards[Rank(c, places)].place = c
  <2> DEFINE k == Rank(c, places)
  <2>1. k \in 1 .. Cardinality(places)
    BY <1>1, RankType
  <2>2. At(k) = c
    BY <1>1, RankTells
  <2> HIDE DEF At, k
  <2>3. k \in DOMAIN boards /\ boards[k].place = c
    BY <1>2, <2>1, <2>2
  <2> QED BY <2>3 DEF k
<1> QED BY <1>1, <1>3, <1>4

(* As many boards as blocks, and none elsewhere, means a board at each of  *)
(* them, in their order.                                                   *)
LEMMA PairedPlaces ==
  ASSUME DocIsSequence, boards \in CreatedBoards, Aligned, request.position = "auto",
         Len(boards) >= Cardinality(Charts)
  PROVE  \A c \in Charts : boards[Paired(c)].place = c
<1>1. Charts = AnnotatedCharts(doc) /\ Positions(Charts)
  BY ChartsAreBlocks DEF Charts, ChartsOf
<1>2. PICK places \in SUBSET MermaidBlocks(doc) : boards = BoardsAt(places)
  BY DEF CreatedBoards
<1>3. /\ Positions(places) /\ Len(boards) = Cardinality(places)
      /\ \A c \in places : /\ Rank(c, places) \in DOMAIN boards
                           /\ boards[Rank(c, places)].place = c
  BY <1>2, FreshPlaces
<1>4. places \subseteq Charts
  BY <1>1, <1>3 DEF Aligned
<1>5. places = Charts
  <2>1. IsFiniteSet(Charts)
    BY <1>1 DEF Positions
  <2>2. /\ Cardinality(Charts) \in Nat /\ Cardinality(places) \in Nat
        /\ Cardinality(places) <= Cardinality(Charts)
        /\ Cardinality(places) = Cardinality(Charts) => places = Charts
    BY <1>4, <2>1, FS_Subset, FS_CardinalityType
  <2> QED BY <1>3, <2>2
<1> QED BY <1>3, <1>5 DEF Paired, Charts

(* Boards that stay in their places stay in the right ones. *)
LEMMA SamePlaces ==
  ASSUME TypeInv, PlaceInv, UNCHANGED <<request, doc>>, DOMAIN boards \subseteq DOMAIN boards',
         \A b \in DOMAIN boards : boards'[b].place = boards[b].place
  PROVE  /\ Aligned' => Aligned
         /\ Charts' = Charts
         /\ \A c : Place(c)' = Place(c) /\ Paired(c)' = Paired(c)
         /\ Aligned /\ pc \in {"push", "verify"} =>
               chart \in blind \/ boards'[target].place = Place(chart)
         /\ Aligned /\ request.position = "auto" /\ pc \in {"next"} \cup Loop =>
               \A c \in Charts : boards'[Paired(c)].place = c
         /\ Aligned => \A r \in results :
               r.chart \in blind \/ boards'[r.token].place = Place(r.chart)
<1>1. TypeOK /\ DocIsSequence /\ DOMAIN boards = 1 .. Len(boards) /\ Len(boards) \in Nat
  <2>1. TypeOK /\ DocIsSequence /\ boards \in Seq(Boards)
    BY DEF TypeInv, TypeOK, Boards
  <2> QED BY <2>1
<1>2. /\ Aligned' => Aligned
      /\ Charts' = Charts
      /\ \A c : Place(c)' = Place(c) /\ Paired(c)' = Paired(c)
  BY DEF Aligned, Charts, Place, EndOf, Paired
<1>3. Aligned /\ pc \in {"push", "verify"} =>
         chart \in blind \/ boards'[target].place = Place(chart)
  BY DEF TypeInv, PlaceInv
<1>4. Aligned => \A r \in results :
         r.chart \in blind \/ boards'[r.token].place = Place(r.chart)
  BY <1>1 DEF TypeOK, PlaceInv
<1>5. Aligned /\ request.position = "auto" /\ pc \in {"next"} \cup Loop =>
         \A c \in Charts : boards'[Paired(c)].place = c
  <2> SUFFICES ASSUME Aligned, request.position = "auto", pc \in {"next"} \cup Loop,
                      NEW c \in Charts
               PROVE  boards'[Paired(c)].place = c
    OBVIOUS
  <2>1. Positions(Charts) /\ Cardinality(Charts) <= Len(boards)
    BY <1>1, ChartsAreBlocks DEF TypeInv
  <2>2. Paired(c) \in 1 .. Cardinality(Charts) /\ Cardinality(Charts) \in Nat
    BY <2>1, RankType DEF Paired, Charts
  <2>3. Paired(c) \in DOMAIN boards
    BY <1>1, <2>1, <2>2
  <2>4. boards[Paired(c)].place = c
    BY DEF PlaceInv
  <2> QED BY <2>3, <2>4
<1> QED BY <1>2, <1>3, <1>4, <1>5

(* A new board is where the position of its chart says. *)
LEMMA InsertedPlace ==
  ASSUME TypeInv, ReportInv, pc = "insert", Aligned, NEW place \in InsertPlaces
  PROVE  place = Place(chart)
<1>1. request.position \in {"append", "inline"}
  <2>1. request \in Configurations /\ request.position # "auto"
    BY RequestsAssumption DEF TypeInv, TypeOK
  <2> QED BY <2>1 DEF Configurations
<1>2. CASE request.position = "append"
  BY <1>2 DEF InsertPlaces, Place
<1>3. CASE request.position = "inline"
  <2>1. chart \in AnnotatedCharts(doc)
    <3>1. chart \in Charts
      BY DEF ReportInv, Loop
    <3> QED BY <3>1 DEF Charts, ChartsOf, UpgradableCharts
  <2>2. place \in DOMAIN doc /\ doc[place].code = doc[chart].code
    BY <1>3 DEF InsertPlaces
  <2>3. place = chart
    BY <1>3, <2>1, <2>2 DEF Aligned
  <2> QED BY <1>3, <2>3 DEF Place
<1> QED BY <1>1, <1>2, <1>3

(* The steps of publish_chart. *)
LEMMA PublishChartPlaces ==
  ASSUME TypeInv, PlaceInv, TokensInv, PublishChart
  PROVE  PlaceInv'
<1>1. /\ TypeOK /\ DocIsSequence /\ ReportInv /\ boards \in Seq(Boards)
      /\ DOMAIN boards = 1 .. Len(boards) /\ Len(boards) \in Nat
  <2>1. TypeOK /\ DocIsSequence /\ ReportInv /\ boards \in Seq(Boards)
    BY DEF TypeInv, TypeOK, Boards, TokensInv
  <2> QED BY <2>1
<1>2. pc \in Loop /\ pc' \in {"next"} \cup Loop /\ UNCHANGED <<request, doc, chart>>
      /\ blind \subseteq blind'
  BY DEF PublishChart, InsertFails, Insert, LocateFails, Locate, PushFails, Push, Skip,
         VerifyAnswers, VerifyNotReady, VerifyFails, Loop
<1>3. /\ DOMAIN boards \subseteq DOMAIN boards'
      /\ \A b \in DOMAIN boards : boards'[b].place = boards[b].place
  <2>1. CASE boards' = boards
    BY <2>1
  <2>2. CASE boards' \in Inserted /\ boards' # boards
    <3>1. PICK place \in InsertPlaces : boards' = NewBoard(place)
      BY <2>2 DEF Inserted
    <3>2. DOMAIN boards \subseteq DOMAIN NewBoard(place)
      BY <1>1, NewBoardType
    <3>3. \A b \in 1 .. Len(boards) : NewBoard(place)[b] = boards[b]
      BY <1>1 DEF NewBoard
    <3> QED BY <1>1, <3>1, <3>2, <3>3
  <2>3. CASE pc = "push" /\ boards' = Filled
    <3>1. target \in DOMAIN boards /\ chart \in DOMAIN doc
      BY <1>2, <2>3 DEF TypeInv
    <3>2. DOMAIN Filled = DOMAIN boards
      BY <1>1, <3>1, FilledType
    <3>3. \A b \in DOMAIN boards : Filled[b].place = boards[b].place
      <4>1. \A b \in DOMAIN boards : boards[b] \in Boards
        BY <1>1
      <4>2. [boards[target] EXCEPT !.holds = chart].place = boards[target].place
        BY <3>1, <4>1 DEF Boards
      <4> QED BY <4>2 DEF Filled
    <3> QED BY <2>3, <3>2, <3>3
  <2> QED BY <2>1, <2>2, <2>3
          DEF PublishChart, InsertFails, Insert, LocateFails, Locate, PushFails, Push,
              VerifyAnswers, VerifyNotReady, VerifyFails
<1>4. /\ Aligned' => Aligned
      /\ Charts' = Charts
      /\ \A c : Place(c)' = Place(c) /\ Paired(c)' = Paired(c)
      /\ Aligned /\ pc \in {"push", "verify"} =>
            chart \in blind' \/ boards'[target].place = Place(chart)
      /\ Aligned /\ request.position = "auto" => \A c \in Charts : boards'[Paired(c)].place = c
      /\ Aligned => \A r \in results :
            r.chart \in blind' \/ boards'[r.token].place = Place(r.chart)
  BY <1>2, <1>3, SamePlaces
<1>5. /\ Aligned /\ pc' \in {"push", "verify"} =>
            chart \in blind' \/ boards'[target'].place = Place(chart)
      /\ pc' = "locate" => chart \in blind' \/ request.position = "append"
      /\ Aligned => \A r \in results' :
            r.chart \in blind' \/ boards'[r.token].place = Place(r.chart)
  <2>1. CASE Insert
    <3>1. results' = results /\ pc' \in {"push", "locate"}
      BY <2>1 DEF Insert
    <3>2. pc' = "locate" => chart \in blind' \/ request.position = "append"
      BY <2>1 DEF Insert
    <3>3. Aligned /\ pc' = "push" => boards'[target'].place = Place(chart)
      <4> SUFFICES ASSUME Aligned, pc' = "push" PROVE boards'[target'].place = Place(chart)
        OBVIOUS
      <4>1. boards' \in Inserted /\ boards' # boards /\ target' = Len(boards')
        BY <2>1 DEF Insert
      <4>2. PICK place \in InsertPlaces : boards' = NewBoard(place)
        BY <4>1 DEF Inserted
      <4>3. Len(boards') = Len(boards) + 1 /\ boards'[Len(boards) + 1].place = place
        BY <1>1, <4>2, NewBoardType DEF NewBoard
      <4>4. place = Place(chart)
        BY <1>1, <2>1, InsertedPlace DEF Insert
      <4> QED BY <4>1, <4>3, <4>4
    <3> QED BY <1>4, <3>1, <3>2, <3>3
  <2>2. CASE Locate
    <3>1. pc = "locate" /\ boards' = boards /\ results' = results /\ pc' = "push"
      BY <2>2 DEF Locate
    <3>2. chart \in blind' \/ boards'[target'].place = Place(chart)
      <4>1. CASE chart \in blind'
        BY <4>1
      <4>2. CASE chart \notin blind'
        <5>1. chart \notin blind
          BY <1>2, <4>2
        <5>2. /\ request.position = "append"
              /\ Len(boards) > 0 /\ boards[Len(boards)].place = EndOf(doc)
          BY <3>1, <5>1 DEF PlaceInv, TokensInv, TokenInv
        <5>3. target' = LastBoard(DOMAIN boards)
          BY <2>2, <4>2 DEF Locate
        <5>4. target' = Len(boards)
          BY <1>1, <5>2, <5>3, LastBoardIsNewest DEF TokensInv
        <5> QED BY <3>1, <5>2, <5>4 DEF Place
      <4> QED BY <4>1, <4>2
    <3> QED BY <1>4, <3>1, <3>2
  <2>3. CASE Push \/ VerifyNotReady
    <3>1. pc \in {"push", "verify"} /\ target' = target /\ results' = results /\ pc' = "verify"
      BY <2>3 DEF Push, VerifyNotReady
    <3> QED BY <1>4, <3>1
  <2>4. CASE VerifyAnswers
    <3>1. PICK ok \in BOOLEAN :
             results' = results \cup {[chart |-> chart, token |-> target, ok |-> ok]}
      BY <2>4 DEF VerifyAnswers
    <3>2. pc = "verify" /\ pc' = "next"
      BY <2>4 DEF VerifyAnswers
    <3> QED BY <1>4, <3>1, <3>2
  <2>5. CASE InsertFails \/ LocateFails \/ PushFails \/ VerifyFails
    <3>1. pc' = "next" /\ results' = results
      BY <2>5 DEF InsertFails, LocateFails, PushFails, VerifyFails, Skip
    <3> QED BY <1>4, <3>1
  <2> QED BY <2>1, <2>2, <2>3, <2>4, <2>5 DEF PublishChart
<1> QED BY <1>2, <1>4, <1>5 DEF PlaceInv, Loop

(* Every step of the pipeline. *)
LEMMA StepPlaces ==
  ASSUME TypeInv, PlaceInv, TokensInv, [Next]_vars
  PROVE  PlaceInv'
<1>1. TypeOK /\ DocIsSequence /\ ReportInv
  BY DEF TypeInv, TypeOK, TokensInv
<1>2. CASE PublishFeishu
  <2>1. CASE PublishViaSdk \/ PublishViaCli
    <3>1. /\ boards' \in CreatedBoards /\ UNCHANGED <<request, doc, results>>
          /\ pc' \in {"return", "pair", "next"} /\ (pc' = "next" => request.position # "auto")
          /\ results = {}
      BY <1>1, <2>1 DEF PublishViaSdk, PublishViaCli, Published, ReportInv, Early
    <3>2. CreatedBoards' = CreatedBoards
      BY <3>1 DEF CreatedBoards
    <3> QED BY <3>1, <3>2 DEF PlaceInv, Loop
  <2>2. CASE PublishFallsBack \/ PublishRaises \/ PairFails \/ ChartsDone
    <3>1. /\ UNCHANGED <<request, doc, boards, results, blind>>
          /\ pc' \in {"cli", "unpublished", "return"}
      BY <2>2 DEF PublishFallsBack, PublishRaises, PairFails, ChartsDone, publisherVars, chartVars
    <3>2. /\ (Aligned' => Aligned) /\ \A c : Place(c)' = Place(c)
          /\ Aligned => \A r \in results : r.chart \in blind \/ boards'[r.token].place = Place(r.chart)
      BY <3>1, SamePlaces
    <3> QED BY <3>1, <3>2 DEF PlaceInv, Loop
  <2>3. CASE Pair
    <3>1. /\ pc = "pair" /\ pc' = "next" /\ Enough /\ todo = Charts /\ boards \in CreatedBoards
          /\ UNCHANGED <<request, doc, boards, results, blind>>
      BY <1>1, <2>3 DEF Pair, publisherVars, chartVars, PlaceInv, ReportInv
    <3>2. /\ Aligned' => Aligned
          /\ Charts' = Charts
          /\ \A c : Place(c)' = Place(c) /\ Paired(c)' = Paired(c)
          /\ Aligned => \A r \in results : r.chart \in blind \/ boards'[r.token].place = Place(r.chart)
      BY <3>1, SamePlaces
    <3>3. Aligned /\ request.position = "auto" => \A c \in Charts : boards[Paired(c)].place = c
      BY <1>1, <3>1, PairedPlaces DEF Enough
    <3> QED BY <3>1, <3>2, <3>3 DEF PlaceInv, Loop
  <2>4. CASE NextChart
    <3>1. /\ pc = "next" /\ todo # {} /\ todo \subseteq Charts /\ Positions(todo)
          /\ UNCHANGED <<request, doc, boards, results, blind>>
      BY <1>1, <2>4, ChartsAreBlocks DEF NextChart, ReportInv
    <3>2. /\ chart' \in Charts
          /\ request.position = "auto" => pc' = "push" /\ target' = Paired(chart')
          /\ request.position # "auto" => pc' = "insert"
      BY <2>4, <3>1, FirstBlock DEF NextChart
    <3>3. /\ Aligned' => Aligned
          /\ Charts' = Charts
          /\ \A c : Place(c)' = Place(c) /\ Paired(c)' = Paired(c)
          /\ Aligned /\ request.position = "auto" =>
                \A c \in Charts : boards[Paired(c)].place = c
          /\ Aligned => \A r \in results : r.chart \in blind \/ boards[r.token].place = Place(r.chart)
      BY <3>1, SamePlaces
    <3>4. request.position = "auto" => Place(chart') = chart'
      BY DEF Place
    <3>5. Place(chart)' = Place(chart')
      BY <3>1 DEF Place, EndOf
    <3> QED BY <3>1, <3>2, <3>3, <3>4, <3>5 DEF PlaceInv, Loop
  <2>5. CASE PublishChart
    BY <2>5, PublishChartPlaces
  <2> QED BY <1>2, <2>1, <2>2, <2>3, <2>4, <2>5 DEF PublishFeishu, PublishWithCharts
<1>3. CASE MergeAndRender
  <2>1. results' = {} /\ pc' = "save"
    BY <1>1, <1>3 DEF MergeAndRender, publisherVars, chartVars, ReportInv, Early
  <2> QED BY <2>1 DEF PlaceInv, Loop
<1>4. CASE \/ User \/ Start \/ RefineRaises \/ SaveDocument \/ SaveRaises
           \/ PublishReturns \/ PublishFailed \/ GenerateOutput
           \/ \E i \in DOMAIN request.sources : FetchOne(i)
  <2>1. UNCHANGED <<request, doc, boards, results, blind>>
        /\ pc' \notin {"pair", "next"} \cup Loop
    BY <1>4 DEF User, ContinueAfterConfirmation, Start, RefineRaises, FetchOne, SaveDocument,
                SaveRaises, PublishReturns, PublishFailed, GenerateOutput, Loop,
                publisherVars, chartVars
  <2>2. /\ (Aligned' => Aligned) /\ \A c : Place(c)' = Place(c)
        /\ Aligned => \A r \in results : r.chart \in blind \/ boards'[r.token].place = Place(r.chart)
    BY <2>1, SamePlaces
  <2> QED BY <2>1, <2>2 DEF PlaceInv, Loop
<1>5. CASE UNCHANGED vars
  <2>1. UNCHANGED <<pc, request, doc, boards, results, chart, target, blind>>
    BY <1>5 DEF vars, publisherVars, chartVars
  <2>2. CreatedBoards' = CreatedBoards
    BY <2>1 DEF CreatedBoards
  <2>3. /\ Aligned' => Aligned
        /\ Charts' = Charts
        /\ \A c : Place(c)' = Place(c) /\ Paired(c)' = Paired(c)
    BY <2>1, SamePlaces
  <2>4. Place(chart)' = Place(chart)
    BY <2>1 DEF Place, EndOf
  <2> QED BY <2>1, <2>2, <2>3, <2>4 DEF PlaceInv, Loop
<1> QED BY <1>2, <1>3, <1>4, <1>5 DEF Next, Publication

(* Every chart that is published, and whose board was told or could be     *)
(* told, stands where its position promises, for any document, however     *)
(* many boards Feishu creates and however lark-cli answers                 *)
(* (chart_publisher.py:119-197, feishu_publisher.py:281-338).              *)
THEOREM ChartsInPlaceHolds == Spec => []ChartsInPlace
<1>1. Init => PlaceInv
  BY DEF Init, PlaceInv, Loop
<1>2. TypeInv /\ TokensInv /\ PlaceInv /\ [Next]_vars => PlaceInv'
  BY StepPlaces
<1>3. TokensInv /\ DocIsSequence /\ [Next]_vars => TokensInv'
  BY StepTokens
<1>4. TypeInv /\ TokensInv /\ DocIsSequence' /\ [Next]_vars => TypeInv'
  BY StepTypes DEF TokensInv
<1>5. PlaceInv => ChartsInPlace
  BY DEF PlaceInv, ChartsInPlace
<1> QED BY <1>1, <1>2, <1>3, <1>4, <1>5, InitTokens, InitTypes, DocumentIsSequence, PTL DEF Spec
=============================================================================
