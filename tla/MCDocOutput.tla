---------------------------- MODULE MCDocOutput -----------------------------
(* Requests, sources and a TEMPLATES.md small enough for TLC.              *)
EXTENDS DocOutputProperties

Arch  == Element("subgraphs", "none", "arch")
Flow  == Element("sequence", "none", "flow")
Dag   == Element("phases", "none", "dag")
Er    == Element("er", "D-CLASS", "er")
Pie   == Element("other", "none", "pie")

Item(key, content) == [key |-> key, content |-> content]
Source(type, items) == [type |-> type, malformed |-> FALSE, items |-> items]
Direct(content) == <<Source("direct", <<Item("input", content)>>)>>

(* A plan with neither a template nor anything to publish its charts with. *)
Base == [docType |-> "note", mark |-> None, raw |-> "long", clear |-> FALSE,
         vague |-> FALSE, sources |-> <<>>, publish |-> TRUE, upgrade |-> TRUE,
         usable |-> TRUE, sdk |-> TRUE, position |-> "append", annotate |-> TRUE,
         installed |-> TRUE]

(* Three charts, one of them not upgradable; the same chart twice, once in *)
(* the overview and once in the details; a block that has no annotation.   *)
Three == Direct(<<Text("why"), Arch, Er, Flow>>)
Twice == <<Source("feishu_doc", <<Item("wiki", <<Text("how"), Dag>>)>>)>>
Mixed == Direct(<<Pie, Arch, Flow>>)

ChartRequests ==
    {[Base EXCEPT !.sources = s, !.position = p] :
        s \in {Three, Twice, Mixed}, p \in {"append", "inline", "auto"}}

AllTypes ==
    <<Source("web", <<Item("site", <<Text("site")>>), Item("query", <<Text("query"), Pie>>)>>),
      Source("code_repository", <<Item("repo", <<Text("repo"), Arch>>), Item("site", <<Flow>>)>>),
      Source("internal", <<Item("aime", <<Text("aime")>>), Item("jira", <<Text("jira")>>)>>),
      [Source("feishu_doc", <<Item("wiki", <<Text("wiki")>>)>>) EXCEPT !.malformed = TRUE],
      Source("direct", <<Item("input", <<Text("1"), Text("2"), Text("3"), Text("4"), Text("5")>>)>>),
      Source("rss", <<>>)>>

FetchRequests ==
    {[Base EXCEPT !.sources = AllTypes, !.publish = FALSE],
     [Base EXCEPT !.sources = AllTypes, !.publish = FALSE, !.docType = "task_plan", !.installed = FALSE],
     [Base EXCEPT !.sources = SubSeq(AllTypes, 1, 2), !.upgrade = FALSE, !.docType = "tech_review"],
     [Base EXCEPT !.sources = SubSeq(AllTypes, 2, 3), !.usable = FALSE, !.sdk = FALSE,
                  !.docType = "design_doc", !.installed = FALSE, !.annotate = FALSE],
     [Base EXCEPT !.sources = Twice \o Direct(<<Pie>>) \o <<Source("feishu_doc", <<Item("faq", <<Text("faq")>>)>>)>>,
                  !.publish = FALSE],
     [Base EXCEPT !.docType = "tech_review", !.position = "auto"]}

RoughRequests ==
    {[Base EXCEPT !.raw = "short", !.vague = TRUE, !.sources = Twice],
     [Base EXCEPT !.docType = "idea_refine"],
     [Base EXCEPT !.mark = "rough_idea", !.sources = Direct(<<Dag>>)]}

(* doc_output.py -i code_repository web direct ...                         *)
Args == [docType |-> "tech_review", types |-> <<"code_repository", "web", "direct">>,
         repos |-> <<Item("repo", <<Text("repo"), Flow>>)>>, docs |-> <<>>,
         direct |-> <<Item("input", <<Text("input")>>)>>, raw |-> "short", clear |-> FALSE,
         vague |-> FALSE, noFeishu |-> FALSE, usable |-> TRUE, sdk |-> FALSE, installed |-> FALSE]

LineRequests ==
    {BuildConfigFromArgs(Args),
     BuildConfigFromArgs([Args EXCEPT !.types = <<"web", "internal">>, !.raw = None])}

MCRequests == ChartRequests \cup FetchRequests \cup RoughRequests \cup LineRequests

(* TEMPLATES.md: what is fenced in, and where a fence is inside the fence. *)
Line(kind, slot) == [kind |-> kind, slot |-> slot]
MCTemplatesFile ==
    <<Line("line", "diagram"),
      Line("section", "tech_review"), Line("markdown", "none"),
      Line("section", "none"), Line("line", "content_source"),
      Line("line", "D-ARCH"), Line("line", "version"), Line("line", "multi"), Line("fence", "none"),
      Line("section", "design_doc"), Line("line", "none"), Line("markdown", "none"),
      Line("line", "content_source"), Line("line", "D-SEQ"),
      Line("fence", "none"), Line("line", "none"), Line("fence", "none"),
      Line("section", "none"), Line("line", "content_source"),
      Line("lang", "none"), Line("line", "none"), Line("fence", "none"),
      Line("line", "content_source"), Line("fence", "none"),
      Line("section", "idea_refine"), Line("line", "none")>>
=============================================================================
