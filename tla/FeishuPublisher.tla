-------------------------- MODULE FeishuPublisher ---------------------------
(***************************************************************************)
(* feishu_publisher.py, called by _publish_feishu of doc_output.py: create *)
(* the Feishu document, by the SDK or else by the CLI, then publish its    *)
(* charts one by one.  Creating a document turns its mermaid blocks into   *)
(* blank whiteboards: all of them as a rule, but not reliably.             *)
(***************************************************************************)
EXTENDS ChartPublisher

VARIABLES
    url,  \* what publish() returned: a "docx" URL, other "text", or nothing
    todo  \* blocks not published yet

publisherVars == <<chartVars, url, todo>>

UpgradeChartCodes == {"D-ARCH", "D-SEQ", "D-DAG"}

MermaidBlocks(content)   == {i \in DOMAIN content : content[i].syntax # "prose"}
AnnotatedCharts(content) == {i \in MermaidBlocks(content) : content[i].code # "none"}
UpgradableCharts(content) ==
    {i \in AnnotatedCharts(content) : content[i].code \in UpgradeChartCodes}

\* Mutant: the upgrade filter applies to "auto" too.
ChartsOfUpgradeOnly(content, position) == UpgradableCharts(content)

(* Where position is "auto", every annotated block.                        *)
ChartsOf(content, position) ==
    IF position = "auto" THEN AnnotatedCharts(content) ELSE UpgradableCharts(content)

WithCharts == request.upgrade /\ request.usable

(* The position of a block among others. *)
Rank(block, blocks) == Cardinality({c \in blocks : c <= block})

(* The document as Feishu creates it: blank boards for some of the mermaid *)
(* blocks, in their order.                                                 *)
BoardsAt(places) ==
    [k \in 1 .. Cardinality(places) |->
        [place |-> CHOOSE i \in places : Rank(i, places) = k, holds |-> Blank]]
CreatedBoards == {BoardsAt(places) : places \in SUBSET MermaidBlocks(doc)}

(* publish() has returned an answer: go on with publish_with_charts.       *)
Published(answer) ==
    /\ url' = answer
    /\ \/ /\ ~WithCharts
          /\ pc' = "return"
          /\ UNCHANGED <<skipped, todo>>
       \/ /\ WithCharts /\ answer # "docx"
          /\ pc' = "return"
          /\ skipped' = {Star}
          /\ UNCHANGED todo
       \/ /\ WithCharts /\ answer = "docx"
          /\ pc' = IF request.position = "auto" THEN "pair" ELSE "next"
          /\ todo' = ChartsOf(doc, request.position)
          /\ UNCHANGED skipped

PublishViaSdk ==
    /\ pc = "publish" /\ request.sdk
    /\ boards' \in CreatedBoards
    /\ \E answer \in {"docx", "text", ""} : Published(answer)
    /\ UNCHANGED <<request, doc, chart, target, tries, results, blind>>

(* Without the SDK, or after an exception of it.  The document that it may *)
(* have created all the same is forgotten.                                 *)
PublishFallsBack ==
    /\ pc = "publish"
    /\ pc' = "cli"
    /\ UNCHANGED <<request, doc, publisherVars>>

PublishViaCli ==
    /\ pc = "cli"
    /\ boards' \in CreatedBoards
    /\ \E answer \in {"docx", "text"} : Published(answer)
    /\ UNCHANGED <<request, doc, chart, target, tries, results, blind>>

(* Neither worked: the exception ends the publication.                     *)
PublishRaises ==
    /\ pc = "cli"
    /\ pc' = "unpublished"
    /\ UNCHANGED <<request, doc, publisherVars>>

\* Mutant: an exception of docs_fetch is not caught.
PairRaises ==
    /\ pc = "pair"
    /\ pc' = "unpublished"
    /\ UNCHANGED <<request, doc, publisherVars>>

(* position "auto": the boards that are there already are fetched, and     *)
(* must be at least as many as the annotated blocks.                       *)
PairFails ==
    /\ pc = "pair"
    /\ skipped' = {Star}
    /\ pc' = "return"
    /\ UNCHANGED <<request, doc, boards, chart, target, tries, results, url, todo, blind>>

Enough == Len(boards) >= Cardinality(todo)

Pair ==
    /\ pc = "pair" /\ Enough
    /\ pc' = "next"
    /\ UNCHANGED <<request, doc, publisherVars>>

\* Mutant: the list of the boards does not advance with that of the blocks.
PairedAmongLeft(block) == Rank(block, todo)

(* zip: the k-th block goes to the k-th board of the document.             *)
Paired(block) == Rank(block, ChartsOf(doc, request.position))

\* Mutant: the loop does not advance.
NextChartAgain ==
    /\ pc = "next" /\ todo # {}
    /\ chart' = Min(todo)
    /\ \/ request.position = "auto" /\ target' = Paired(chart') /\ pc' = "push"
       \/ request.position # "auto" /\ target' = target /\ pc' = "insert"
    /\ UNCHANGED <<request, doc, boards, tries, results, skipped, url, todo, blind>>

NextChart ==
    /\ pc = "next" /\ todo # {}
    /\ chart' = Min(todo)
    /\ todo' = todo \ {chart'}
    /\ \/ request.position = "auto" /\ target' = Paired(chart') /\ pc' = "push"
       \/ request.position # "auto" /\ target' = target /\ pc' = "insert"
    /\ UNCHANGED <<request, doc, boards, tries, results, skipped, url, blind>>

ChartsDone ==
    /\ pc = "next" /\ todo = {}
    /\ pc' = "return"
    /\ UNCHANGED <<request, doc, publisherVars>>

PublishWithCharts ==
    \/ PublishViaSdk \/ PublishFallsBack \/ PublishViaCli \/ PublishRaises
    \/ PairFails \/ Pair \/ NextChart \/ ChartsDone
    \/ PublishChart /\ UNCHANGED <<url, todo>>
=============================================================================
