------------------------ MODULE DocOutputProperties -------------------------
(* What the user of doc-output may rely on.                                *)
EXTENDS DocOutput

Publishing == {"pair", "next", "insert", "locate", "push", "verify"}
Ended      == {"return", "output", "done"}
Rendered   == {"save", "publish", "cli", "unpublished"} \cup Publishing \cup Ended

DocIsSequence == Len(doc) \in Nat /\ DOMAIN doc = 1 .. Len(doc)

TypeOK ==
    /\ DocIsSequence
    /\ pc \in {"start", "asked", "revision", "fetch", "raised"} \cup Rendered
    /\ request \in Requests
    /\ boards \in Seq([place : 1 .. EndOf(doc), holds : {Blank} \cup DOMAIN doc])
    /\ chart \in {0} \cup DOMAIN doc
    /\ target \in Nat
    /\ tries \in 0 .. MaxQueries - 1
    /\ results \subseteq [chart : DOMAIN doc, token : DOMAIN boards, ok : BOOLEAN]
    /\ skipped \subseteq {Star} \cup DOMAIN doc
    /\ url \in {"docx", "text", ""} /\ feishuUrl \in {"docx", "text", ""}
    /\ todo \subseteq DOMAIN doc
    /\ blind \subseteq DOMAIN doc
    /\ choice \in {None} \cup Replies

(* The answer of publish_with_charts (feishu_publisher.py:275-280) accounts *)
(* for every block that should become a board: whatever fails, and however *)
(* often, each is reported once, as published or as skipped, or else the   *)
(* whole document is skipped as "*".                                       *)
Reported == {r.chart : r \in results}
AccountsFor(blocks) ==
    /\ Reported \cup skipped = blocks
    /\ Reported \cap skipped = {}
    /\ \A r, s \in results : r.chart = s.chart => r = s
ReportComplete ==
    pc \in Ended /\ WithCharts /\ url # "" =>
        \/ results = {} /\ skipped = {Star}
        \/ AccountsFor(ChartsOf(doc, request.position))

(* A chart reported as verified stays on its board to the end: no chart is *)
(* pushed over it, except one whose own board the fetch that replaces a    *)
(* missing token (chart_publisher.py:186-197) could not show at the end of *)
(* the document.                                                           *)
VerifiedBoards ==
    \A r \in results :
        r.ok => boards[r.token].holds = r.chart \/ boards[r.token].holds \in blind

(* A chart whose board was told, or could be told, goes to the place that  *)
(* its position promises: at its own block, or at the end of the document. *)
(* "inline" needs a chart's annotation to occur once; "auto", that Feishu  *)
(* made no board of a block without annotation, however many of the others *)
(* it left out.                                                            *)
Aligned ==
    CASE request.position = "auto"   ->
            \A b \in DOMAIN boards : boards[b].place \in AnnotatedCharts(doc)
      [] request.position = "inline" ->
            \A i \in AnnotatedCharts(doc), j \in DOMAIN doc : doc[i].code = doc[j].code => i = j
      [] OTHER                       -> TRUE
Place(block) == IF request.position = "append" THEN EndOf(doc) ELSE block
ChartsInPlace ==
    Aligned => \A r \in results :
        r.chart \in blind \/ boards[r.token].place = Place(r.chart)

(* Position "auto", whether or not a block without annotation has a board: *)
(* the charts stand in the order of the document and each has a board to   *)
(* itself (feishu_publisher.py:324-332), so that a board too many moves    *)
(* the charts behind it, but never swaps or merges two of them.            *)
ChartsInOrder ==
    request.position = "auto" =>
        \A r, s \in results :
            r.chart < s.chart => boards[r.token].place < boards[s.token].place

(* Best effort (feishu_publisher.py:339-360, doc_output.py:364-366): the   *)
(* URL of a document that exists is in the answer of run(), whatever       *)
(* became of its charts, and the same document is on the disk.             *)
UrlSurvives == pc = "done" => output.url = url /\ savedDoc = doc

(* The threads of the fetch end in any order; with one source of each type *)
(* the document is the same (parallel_fetch.py:76-99 stores the results as *)
(* they come).                                                             *)
ResultOf(i) == FlattenSeq([k \in DOMAIN fetched |->
                             IF fetched[k].source = i THEN <<fetched[k]>> ELSE <<>>])
BySource == FlattenSeq([i \in DOMAIN request.sources |-> ResultOf(i)])
OneSourceOfEachType ==
    \A i, j \in DOMAIN request.sources :
        request.sources[i].type = request.sources[j].type => i = j
MergeIgnoresTiming ==
    pc = "save" /\ OneSourceOfEachType => doc = RenderOf(BySource)

(* Of all that was fetched, in whatever order it came, the beginning is in *)
(* the merged overview: no item replaces another one (the details of equal *)
(* keys do: content_merger.py:80-118).  It is in the document as well if   *)
(* the template has a slot for the overview; those of template_engine.py   *)
(* itself have one, the chapters of references/TEMPLATES.md have none.     *)
Origins(content) == {e.from : e \in ToSet(content)}
FetchedIn(content) ==
    \A k \in DOMAIN fetched : \A item \in ToSet(fetched[k].items) :
        Origins(Cut(item.content)) \subseteq Origins(content)
HasOverview == "overview" \in ToSet(LoadTemplate(request.docType, request.installed))
NothingDropped ==
    pc = "save" => FetchedIn(Merge(fetched).overview) /\ (HasOverview => FetchedIn(doc))

(* Publication ends: the loops over the charts and over the queries of a   *)
(* board do, in whatever way their calls fail, and run() answers.          *)
PublicationEnds == pc = "publish" ~> pc = "done"

(* A chapter of TEMPLATES.md whose template has no fence of its own: from  *)
(* its heading to the next one, with one fence around the template.        *)
FencedChapter(start, open, close, end) ==
    /\ start < open /\ open < close /\ close < end
    /\ {i \in start .. end - 1 : IsFence(TemplatesFile[i])} = {open, close}
    /\ TemplatesFile[open].kind = "markdown" /\ TemplatesFile[close].kind = "fence"
    /\ \A i \in start + 1 .. end - 1 : TemplatesFile[i].kind = "section" => i \in open .. close

(* Such a template is used as a whole, headings inside it included, and    *)
(* with nothing of what is around it (template_engine.py:153-264).         *)
Sections  == {i \in DOMAIN TemplatesFile : TemplatesFile[i].kind = "section"}
Headings  == {i \in Sections : TemplatesFile[i].slot = request.docType}
FenceLines == {i \in DOMAIN TemplatesFile : IsFence(TemplatesFile[i])}
FilledWith(template) ==
    LET content == ReplaceVariables(template, Merge(fetched))
    IN  IF request.annotate THEN AnnotateMermaidBlocks(content) ELSE content
TemplateKept ==
    pc = "save" /\ request.installed =>
        \A start \in Headings, open, close \in FenceLines,
           end \in Sections \cup {Len(TemplatesFile) + 1} :
              (\A i \in Headings : start <= i) /\ FencedChapter(start, open, close, end)
                  => doc = FilledWith(Slots(SubSeq(TemplatesFile, open + 1, close - 1)))
=============================================================================
