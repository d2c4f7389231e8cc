----------------------------- MODULE DocOutput ------------------------------
(***************************************************************************)
(* doc_output.py: one run of the pipeline, from the configuration through  *)
(* the user's confirmation of a rough idea, the parallel fetch, the merge, *)
(* the template and the saved file to the Feishu document with its charts. *)
(***************************************************************************)
EXTENDS ContentMerger, FeishuPublisher

CONSTANTS
    Requests  \* configurations that DocOutput is run with

(* What a configuration consists of; raw is the length of the raw content, *)
(* clear says that it names a URL or a path.                               *)
Sources == [type : STRING, malformed : BOOLEAN,
            items : Seq([key : STRING, content : Seq(Elements)])]
Configurations ==
    [docType : STRING, mark : STRING, raw : STRING, clear : BOOLEAN, vague : BOOLEAN,
     sources : Seq(Sources), publish : BOOLEAN, upgrade : BOOLEAN,
     position : {"append", "inline", "auto"}, usable : BOOLEAN, sdk : BOOLEAN,
     annotate : BOOLEAN, installed : BOOLEAN]

ASSUME RequestsAssumption == Requests \subseteq Configurations

VARIABLES
    fetched,    \* results of the sources, in the order in which they came
    choice,     \* the user's last answer about the refined idea
    savedDoc,   \* the local file
    feishuUrl,  \* the URL the pipeline remembers
    output      \* the answer of run(), once there is one

docVars == <<fetched, choice, savedDoc, feishuUrl, output>>
vars == <<pc, request, doc, publisherVars, docVars>>

None == "none"

-----------------------------------------------------------------------------
(*                              The request                                *)

(* The command line knows no way to describe the other types of sources.   *)
BuildConfigFromArgs(args) ==
    LET Usable(type) == \/ type = "code_repository" /\ args.repos # <<>>
                        \/ type = "feishu_doc" /\ args.docs # <<>>
                        \/ type = "direct" /\ args.raw # None
        Source(type) ==
            [type |-> type, malformed |-> FALSE,
             items |-> CASE type = "code_repository" -> args.repos
                         [] type = "feishu_doc" -> args.docs
                         [] type = "direct" -> args.direct]
        types == SelectSeq(args.types, Usable)
    IN  [docType |-> args.docType, mark |-> None, raw |-> args.raw,
         clear |-> args.clear, vague |-> args.vague,
         sources |-> [i \in DOMAIN types |-> Source(types[i])],
         publish |-> ~args.noFeishu, upgrade |-> TRUE, position |-> "append",
         usable |-> args.usable, sdk |-> args.sdk,
         annotate |-> TRUE, installed |-> args.installed]

IsIdeaRefineNeeded(r) ==
    \/ r.docType = "idea_refine"
    \/ r.mark = "rough_idea"
    \/ r.raw = None /\ r.sources = <<>>
    \/ r.raw = "short" /\ ~r.clear /\ r.sources = <<>>
    \/ r.raw = "short" /\ r.vague

Init ==
    /\ pc = "start"
    /\ request \in Requests
    /\ doc = <<>>
    /\ boards = <<>> /\ chart = 0 /\ target = 0 /\ tries = 0
    /\ results = {} /\ skipped = {} /\ blind = {}
    /\ url = "" /\ todo = {}
    /\ fetched = <<>>
    /\ choice = None
    /\ savedDoc = <<>>
    /\ feishuUrl = ""
    /\ output = [url |-> "", collected |-> FALSE, unfilled |-> 0]

Start ==
    /\ pc = "start"
    /\ pc' = IF IsIdeaRefineNeeded(request) THEN "asked" ELSE "fetch"
    /\ UNCHANGED <<request, doc, publisherVars, docVars>>

(* refine() writes the refined idea to a file, run() returns a question.   *)
RefineRaises ==
    /\ pc = "start" /\ IsIdeaRefineNeeded(request)
    /\ pc' = "raised"
    /\ UNCHANGED <<request, doc, publisherVars, docVars>>

Adjustments == {"adjust_goal", "add_constraints", "other_clarification"}

(* Only the three adjustments are told apart; any other answer continues.  *)
(* The orchestrator may call this again after "waiting_user_revision".     *)
ContinueAfterConfirmation(answer) ==
    /\ pc \in {"asked", "revision"}
    /\ choice' = answer
    /\ pc' = IF answer \in Adjustments THEN "revision" ELSE "fetch"
    /\ UNCHANGED <<request, doc, publisherVars, fetched, savedDoc, feishuUrl, output>>

-----------------------------------------------------------------------------
(*                         The parallel fetch                              *)

Fetchable == {i \in DOMAIN request.sources : request.sources[i].type \in SourceTypes}
Outstanding == Fetchable \ {fetched[k].source : k \in DOMAIN fetched}

InternalTools == {"aime", "argos", "metrics"}

(* What a source that is read as a whole contributes.  A repository may be *)
(* gone; its analysis may be empty, or be a message about its failure.     *)
Answers(source) ==
    IF source.type = "code_repository"
    THEN [DOMAIN source.items -> {"missing", "answer", "failure", "empty"}]
    ELSE {[i \in DOMAIN source.items |->
            IF source.type = "internal" /\ source.items[i].key \notin InternalTools
            THEN "missing" ELSE "answer"]}

Fetched(source, answers) ==
    LET items == [i \in DOMAIN source.items |->
            [type    |-> source.type,
             key     |-> source.items[i].key,
             content |-> CASE answers[i] = "answer"  -> source.items[i].content
                           [] answers[i] = "failure" -> <<Text("failure")>>
                           [] OTHER                  -> <<>>]]
    IN  FlattenSeq([i \in DOMAIN items |->
            IF answers[i] = "missing" THEN <<>> ELSE <<items[i]>>])

(* A thread per source: its result is stored when it ends.                 *)
FetchOne(i) ==
    /\ pc = "fetch" /\ i \in Outstanding
    /\ LET source == request.sources[i]
       IN  \E answers \in Answers(source) :
              fetched' = Append(fetched,
                  IF source.malformed
                  THEN [source |-> i, type |-> "unknown", status |-> "error", items |-> <<>>]
                  ELSE [source |-> i, type |-> source.type, status |-> "success",
                        items |-> Fetched(source, answers)])
    /\ UNCHANGED <<pc, request, doc, publisherVars, choice, savedDoc, feishuUrl, output>>

-----------------------------------------------------------------------------
(*                     Merge, render, save, publish                        *)

RenderOf(fetchResults) ==
    Render(request.docType, Merge(fetchResults), request.installed, request.annotate)

MergeAndRender ==
    /\ pc = "fetch" /\ Outstanding = {}
    /\ doc' = RenderOf(fetched)
    /\ pc' = "save"
    /\ UNCHANGED <<request, publisherVars, docVars>>

SaveDocument ==
    /\ pc = "save"
    /\ savedDoc' = doc
    /\ pc' = IF request.publish THEN "publish" ELSE "output"
    /\ UNCHANGED <<request, doc, publisherVars, fetched, choice, feishuUrl, output>>

SaveRaises ==
    /\ pc = "save"
    /\ pc' = "raised"
    /\ UNCHANGED <<request, doc, publisherVars, docVars>>

PublishFeishu == PublishWithCharts /\ UNCHANGED docVars

PublishReturns ==
    /\ pc = "return"
    /\ feishuUrl' = url
    /\ pc' = "output"
    /\ UNCHANGED <<request, doc, publisherVars, fetched, choice, savedDoc, output>>

PublishFailed ==
    /\ pc = "unpublished"
    /\ feishuUrl' = ""
    /\ pc' = "output"
    /\ UNCHANGED <<request, doc, publisherVars, fetched, choice, savedDoc, output>>

CountUnfilledDiagrams(content) ==
    Cardinality({i \in DOMAIN content : content[i].syntax = "stub"})

GenerateOutput ==
    /\ pc = "output"
    /\ output' = [url |-> feishuUrl, collected |-> fetched # <<>>,
                  unfilled |-> CountUnfilledDiagrams(doc)]
    /\ pc' = "done"
    /\ UNCHANGED <<request, doc, publisherVars, fetched, choice, savedDoc, feishuUrl>>

-----------------------------------------------------------------------------

(* The argument is a string: one of the four offered values, or another.   *)
Replies == Adjustments \cup {"confirm_continue", "other"}

User == \E answer \in Replies : ContinueAfterConfirmation(answer)

Publication == PublishFeishu \/ PublishReturns \/ PublishFailed \/ GenerateOutput

Next ==
    \/ User
    \/ Start \/ RefineRaises
    \/ \E i \in DOMAIN request.sources : FetchOne(i)
    \/ MergeAndRender \/ SaveDocument \/ SaveRaises
    \/ Publication

Spec == Init /\ [][Next]_vars

(* Python goes on with what it can do.  Fairness is stated for the part of *)
(* the pipeline that has loops; what comes before runs straight through.   *)
FairSpec == Spec /\ WF_vars(Publication)
=============================================================================
