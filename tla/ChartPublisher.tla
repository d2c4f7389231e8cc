--------------------------- MODULE ChartPublisher ---------------------------
(***************************************************************************)
(* chart_publisher.py: one mermaid block becomes a Feishu whiteboard.      *)
(* publish_chart inserts a board, finds out its token, pushes the block to *)
(* it and reads it back; fill_existing_whiteboard starts at the push.      *)
(*                                                                         *)
(* The published document is external, and modelled by what lark-cli does  *)
(* to its boards.  A call may fail, or have its effect and fail all the    *)
(* same.  It always ends: lark-cli is run without a timeout.               *)
(***************************************************************************)
EXTENDS TemplateEngine

VARIABLES
    pc,       \* of the one thread that runs doc-output
    request,  \* its configuration; here only the position of the charts
    doc,      \* the rendered document
    boards,   \* whiteboards of the published document, in order of creation:
              \* a board's token is its index
    chart,    \* the block (an index of doc) being published
    target,   \* token of the board it goes to
    tries,    \* queries of that board that were not ready
    results,  \* what publish_chart returned so far
    skipped,  \* blocks whose publication failed, or Star
    blind     \* history: blocks whose board a fetch could not tell

chartVars == <<boards, chart, target, tries, results, skipped, blind>>

Star  == 0  \* stands for every block, like "*" in the code
Blank == 0  \* a board that holds nothing
MaxQueries == 3  \* retry_delays = (0, 2, 5)

EndOf(content) == Len(content) + 1

(* insert_after finds the annotation by its text alone.                    *)
InsertPlaces ==
    IF request.position = "inline"
    THEN {i \in DOMAIN doc : doc[i].code = doc[chart].code}
    ELSE {EndOf(doc)}

\* Mutant: the record is replaced, not extended.
SkipForgets == pc' = "next" /\ skipped' = {chart}

(* The except branch of the caller's loop: log it and go on.               *)
Skip == pc' = "next" /\ skipped' = skipped \cup {chart}

NewBoard(place) == Append(boards, [place |-> place, holds |-> Blank])

(* What an insert may leave behind, whatever lark-cli answers.             *)
Inserted == {boards} \cup {NewBoard(place) : place \in InsertPlaces}

InsertFails ==
    /\ pc = "insert"
    /\ boards' \in Inserted
    /\ Skip
    /\ UNCHANGED <<request, doc, chart, target, tries, results, blind>>

(* The answer "ok" names the token of the new board, or it names none: the *)
(* board is then looked for at the end of the document, where it is if it  *)
(* was made at all and was appended.                                       *)
Insert ==
    /\ pc = "insert"
    /\ boards' \in Inserted
    /\ \/ boards' # boards /\ target' = Len(boards') /\ pc' = "push" /\ UNCHANGED blind
       \/ /\ pc' = "locate" /\ UNCHANGED target
          /\ blind' = IF boards' # boards /\ request.position = "append"
                      THEN blind ELSE blind \cup {chart}
    /\ UNCHANGED <<request, doc, chart, tries, results, skipped>>

(* Board b stands behind board c in the markdown: appended boards from old *)
(* to new, boards inserted at one annotation from new to old.              *)
Behind(b, c) ==
    \/ boards[b].place > boards[c].place
    \/ boards[b].place = boards[c].place
       /\ IF boards[b].place = EndOf(doc) THEN b > c ELSE b < c

\* Mutant: tokens[0] instead of tokens[-1].
FirstBoard(seen) == CHOOSE b \in seen : \A c \in seen \ {b} : Behind(c, b)

LastBoard(seen) == CHOOSE b \in seen : \A c \in seen \ {b} : Behind(b, c)

LocateFails ==
    /\ pc = "locate"
    /\ Skip
    /\ UNCHANGED <<request, doc, boards, chart, target, tries, results, blind>>

(* The fetch may not show the newest board yet.                            *)
Locate ==
    /\ pc = "locate"
    /\ \E seen \in {DOMAIN boards, DOMAIN boards \ {Len(boards)}} \ {{}} :
          /\ target' = LastBoard(seen)
          /\ blind' = IF Len(boards) \in seen THEN blind ELSE blind \cup {chart}
    /\ pc' = "push"
    /\ UNCHANGED <<request, doc, boards, chart, tries, results, skipped>>

Filled == [boards EXCEPT ![target].holds = chart]

PushFails ==
    /\ pc = "push"
    /\ boards' \in {boards, Filled}
    /\ Skip
    /\ UNCHANGED <<request, doc, chart, target, tries, results, blind>>

Push ==
    /\ pc = "push"
    /\ boards' = Filled
    /\ tries' = 0
    /\ pc' = "verify"
    /\ UNCHANGED <<request, doc, chart, target, results, skipped, blind>>

(* The query returns code: equal to the block, or not (Feishu may also     *)
(* have rewritten what it was given).                                      *)
VerifyAnswers ==
    /\ pc = "verify"
    /\ \E ok \in BOOLEAN :
          /\ ok => boards[target].holds = chart
          /\ results' = results \cup {[chart |-> chart, token |-> target, ok |-> ok]}
    /\ pc' = "next"
    /\ UNCHANGED <<request, doc, boards, chart, target, tries, skipped, blind>>

\* Mutant: one query too many.
VerifyOnceMore ==
    /\ pc = "verify"
    /\ tries < MaxQueries
    /\ tries' = tries + 1
    /\ UNCHANGED <<pc, request, doc, boards, chart, target, results, skipped, blind>>

(* "data is not ready" and "doc is applying" are tried again.              *)
VerifyNotReady ==
    /\ pc = "verify"
    /\ tries + 1 < MaxQueries
    /\ tries' = tries + 1
    /\ UNCHANGED <<pc, request, doc, boards, chart, target, results, skipped, blind>>

(* The last query was not ready either, or one failed for good.            *)
VerifyFails ==
    /\ pc = "verify"
    /\ Skip
    /\ UNCHANGED <<request, doc, boards, chart, target, tries, results, blind>>

PublishChart ==
    \/ InsertFails \/ Insert \/ LocateFails \/ Locate
    \/ PushFails \/ Push \/ VerifyAnswers \/ VerifyNotReady \/ VerifyFails
=============================================================================
