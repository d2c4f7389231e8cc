--------------------------- MODULE ContentMerger ----------------------------
(***************************************************************************)
(* content_merger.py: from the fetched results, in the order in which the  *)
(* threads of ParallelFetcher ended, to what the template engine is given. *)
(* The functions about conflicts are called by nobody and are left out.    *)
(***************************************************************************)
EXTENDS Integers, SequencesExt

CONSTANTS
    OverviewLimit  \* elements that content[:2000] keeps of one item

ASSUME MergerAssumption == OverviewLimit \in Nat

SourceTypes == {"code_repository", "feishu_doc", "web", "internal", "direct"}
SourceOrder == <<"code_repository", "feishu_doc", "web", "internal", "direct">>
DetailOrder == <<"code_repository", "feishu_doc", "web">>

\* Mutant: a source replaces the earlier ones of its type.
GroupLatestOfType(results, type) ==
    LET of == SelectSeq(results, LAMBDA r : r.status = "success" /\ r.type = type)
    IN  IF of = <<>> THEN <<>> ELSE Last(of).items

(* The items of one type, in the order of the results.                     *)
GroupByType(results, type) ==
    FlattenSeq([i \in DOMAIN results |->
        IF results[i].status = "success" /\ results[i].type = type
        THEN results[i].items ELSE <<>>])

InOrder(results, order) ==
    FlattenSeq([k \in DOMAIN order |-> GroupByType(results, order[k])])

Cut(content) ==
    IF Len(content) < OverviewLimit THEN content ELSE SubSeq(content, 1, OverviewLimit)

\* Mutant: no order of types.
MergeOverviewAsItComes(results) ==
    LET items == FlattenSeq([k \in DOMAIN results |-> results[k].items])
    IN  FlattenSeq([i \in DOMAIN items |-> Cut(items[i].content)])

MergeOverview(results) ==
    LET items == InOrder(results, SourceOrder)
    IN  FlattenSeq([i \in DOMAIN items |-> Cut(items[i].content)])

(* A Python dict: a second item with the same key replaces the first one,  *)
(* in the first one's place.                                               *)
PutDetail(details, item) ==
    IF \E i \in DOMAIN details : details[i].key = item.key
    THEN [i \in DOMAIN details |-> IF details[i].key = item.key THEN item ELSE details[i]]
    ELSE Append(details, item)

MergeDetails(results) == FoldLeft(PutDetail, <<>>, InOrder(results, DetailOrder))

MergeReferences(results) ==
    LET items == InOrder(results, DetailOrder)
    IN  [i \in DOMAIN items |-> items[i].key]

Merge(results) ==
    [overview   |-> MergeOverview(results),
     details    |-> MergeDetails(results),
     references |-> MergeReferences(results)]
=============================================================================
