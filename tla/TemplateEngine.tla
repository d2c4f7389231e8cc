--------------------------- MODULE TemplateEngine ---------------------------
(***************************************************************************)
(* template_engine.py: from a document type and merged content to the      *)
(* document.  A document is a sequence of elements, one for each mermaid   *)
(* block and one for each stretch of prose; a template is the sequence of  *)
(* its {{slots}}.  What stands around the slots of a template is left out. *)
(***************************************************************************)
EXTENDS Integers, SequencesExt

CONSTANTS
    TemplatesFile  \* the lines of references/TEMPLATES.md

ASSUME TemplatesAssumption == TemplatesFile \in Seq([kind : STRING, slot : STRING])

ChartCode == {"D-ARCH", "D-SEQ", "D-DAG", "D-CLASS", "D-STATE", "D-DECISION",
              "D-MIND", "D-GANTT"}

(* An element: what the first line of a mermaid body says, or "prose"; the *)
(* chart annotation in front of it; and where its text comes from.         *)
Element(syntax, code, from) == [syntax |-> syntax, code |-> code, from |-> from]
Elements == [syntax : STRING, code : STRING, from : STRING]
Text(from) == Element("prose", "none", from)
Stub(code) == Element("stub", "none", code)

ClassOf == [sequence  |-> "D-SEQ",   class   |-> "D-CLASS", er     |-> "D-CLASS",
            state     |-> "D-STATE", mindmap |-> "D-MIND",  gantt  |-> "D-GANTT",
            phases    |-> "D-DAG",   subgraphs |-> "D-ARCH",
            flowchart |-> "D-DECISION"]

ClassifyMermaidBody(syntax) == IF syntax \in DOMAIN ClassOf THEN ClassOf[syntax] ELSE "none"

AnnotateMermaidBlocks(content) ==
    [i \in DOMAIN content |->
        IF content[i].code = "none"
        THEN [content[i] EXCEPT !.code = ClassifyMermaidBody(content[i].syntax)]
        ELSE content[i]]

-----------------------------------------------------------------------------
(*                              The template                               *)

(* A line of the file: a "section" heading (slot: the type it names), the  *)
(* opening "markdown" fence, another opening fence with a "lang", a bare   *)
(* "fence", or a "line" with a slot ("none" if it has none).               *)
IsFence(line) == line.kind \in {"markdown", "lang", "fence"}
Slots(lines) ==
    FlattenSeq([i \in DOMAIN lines |->
        IF lines[i].kind = "line" /\ lines[i].slot # "none" THEN <<lines[i].slot>> ELSE <<>>])

\* Mutant: the headings inside a fence count.
NextHeading(file, start) ==
    LET ends == {i \in start + 1 .. Len(file) : file[i].kind = "section"}
    IN  IF ends = {} THEN Len(file) + 1 ELSE Min(ends)

(* The next heading that an even number of fence lines precedes.           *)
FindNextSectionOutsideFence(file, start) ==
    LET Fences(i) == {j \in start + 1 .. i - 1 : IsFence(file[j])}
        ends == {i \in start + 1 .. Len(file) :
                    file[i].kind = "section" /\ Cardinality(Fences(i)) % 2 = 0}
    IN  IF ends = {} THEN Len(file) + 1 ELSE Min(ends)

(* From the first ```markdown to the first bare fence behind it.           *)
UnwrapMarkdownFence(section) ==
    LET opens  == {i \in DOMAIN section : section[i].kind = "markdown"}
        closes == {i \in DOMAIN section : section[i].kind = "fence" /\ i > Min(opens)}
    IN  IF opens = {} \/ closes = {} THEN section
        ELSE SubSeq(section, Min(opens) + 1, Min(closes) - 1)

MinimalDefaultTemplate == <<"overview", "details", "references">>

PlanningSkeletonTypes == {"task_plan", "test_plan", "module_plan", "research_report"}
RichFallbackTypes     == PlanningSkeletonTypes \cup {"tech_review", "design_doc"}

PlanningSkeletonTemplate == <<"overview", "details", "D-DAG", "references">>

RichSkeletonTemplate(docType) ==
    IF docType \in PlanningSkeletonTypes THEN PlanningSkeletonTemplate
    ELSE <<"overview", "details", "D-ARCH", "D-SEQ", "D-DAG", "D-CLASS", "references">>

DefaultTemplate(docType) ==
    IF docType \in RichFallbackTypes THEN RichSkeletonTemplate(docType)
    ELSE MinimalDefaultTemplate

SectionOf(file, docType) ==
    LET starts == {i \in DOMAIN file : file[i].kind = "section" /\ file[i].slot = docType}
    IN  IF starts = {} THEN <<>>
        ELSE SubSeq(file, Min(starts), FindNextSectionOutsideFence(file, Min(starts)) - 1)

ExtractTemplateSection(file, docType) ==
    LET section == SectionOf(file, docType)
    IN  IF section = <<>> THEN DefaultTemplate(docType)
        ELSE Slots(UnwrapMarkdownFence(section))

LoadTemplate(docType, installed) ==
    IF installed THEN ExtractTemplateSection(TemplatesFile, docType)
    ELSE DefaultTemplate(docType)

-----------------------------------------------------------------------------
(*                          Filling the template                           *)

PrimarySourceLabel(details) == IF details = <<>> THEN "unlabelled" ELSE details[1].type

FormatOverview(overview) == IF overview = <<>> THEN <<Text("no overview")>> ELSE overview

FormatDetails(details) ==
    IF details = <<>> THEN <<Text("no details")>>
    ELSE FlattenSeq([i \in DOMAIN details |-> <<Text(details[i].key)>> \o details[i].content])

FormatReferences(references) ==
    IF references = <<>> THEN <<Text("no references")>>
    ELSE [i \in DOMAIN references |-> Text(references[i])]

(* Every other slot, {{version}} for one, is stripped.                     *)
Fill(slot, merged) ==
    CASE slot = "overview"       -> FormatOverview(merged.overview)
      [] slot = "details"        -> FormatDetails(merged.details)
      [] slot = "references"     -> FormatReferences(merged.references)
      [] slot = "content_source" -> <<Text(PrimarySourceLabel(merged.details))>>
      [] slot \in ChartCode      -> <<Stub(slot)>>
      [] slot = "diagram"        -> <<Stub("generic")>>
      [] slot = "multi"          -> <<Stub("D-ARCH"), Stub("D-SEQ")>>
      [] OTHER                   -> <<>>

ReplaceVariables(template, merged) ==
    FlattenSeq([i \in DOMAIN template |-> Fill(template[i], merged)])

Render(docType, merged, installed, annotate) ==
    LET content == ReplaceVariables(LoadTemplate(docType, installed), merged)
    IN  IF annotate THEN AnnotateMermaidBlocks(content) ELSE content
=============================================================================
