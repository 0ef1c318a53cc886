--------------------------- MODULE HtmlDocuments ---------------------------
(***************************************************************************)
(* The semantic HTML document and what htmlDocumentSchema accepts.  An     *)
(* element is a record with the sequence of its child elements; its texts, *)
(* classes and style tokens are left out.                                  *)
(***************************************************************************)
EXTENDS Publications

CONSTANTS
    MaxLabel,          \* the longest ariaLabel: 240
    MaxTreeDepth,      \* MAX_TREE_DEPTH: 16
    MaxChildren,       \* MAX_CHILDREN_PER_ELEMENT: 180
    MaxTotalElements   \* MAX_TOTAL_ELEMENTS: 2400

ASSUME DocumentAssumption ==
    {MaxLabel, MaxTreeDepth, MaxChildren, MaxTotalElements} \subseteq Nat

NoHref == [kind |-> "none", target |-> NoId]
InternalHref(id) == [kind |-> "internal", target |-> id]

\* The ariaLabel of an element that has none; an empty one has length 0.
NullLabel == -1

\* genericElement, and the base of the other constructors.
genericElement(id, tag, children) ==
    [id |-> id, tag |-> tag, children |-> children,
     level |-> 0,             \* of a heading
     asset |-> NoId,          \* of an image
     label |-> NullLabel,     \* the length of the ariaLabel
     href |-> NoHref,
     attributes |-> {}]       \* which attributes it has

----------------------------------------------------------------------------
(* htmlDocumentSchema                                                      *)

\* Children of the elements of a level, in order, each with its parent's tag.
ChildLevel(level) ==
    FlattenSeq([i \in DOMAIN level |->
        LET node == level[i].node IN
        [k \in DOMAIN node.children |->
            [node |-> node.children[k], parentTag |-> node.tag,
             depth |-> level[i].depth + 1]]])

\* The traversal: the queue takes the elements breadth first.  It breaks off at
\* the first element that is too deep.
Traversal(elements) ==
    LET roots == [i \in DOMAIN elements |->
            [node |-> elements[i], parentTag |-> "none", depth |-> 1]]
        taken[n \in 0 .. MaxTreeDepth] ==
            IF n = 0 THEN [items |-> roots, level |-> roots]
            ELSE LET before == taken[n - 1]
                     level == ChildLevel(before.level)
                 IN  [items |-> before.items \o level, level |-> level]
    IN  taken[MaxTreeDepth].items

\* The tags an attribute is allowed on.
AttributeTags ==
    [href |-> {"a"}, src |-> {"img"}, alt |-> {"img"}, scope |-> {"th"},
     loading |-> {"img"}, decoding |-> {"img"},
     dataPublicationBlock |-> {"aside"}, dataReferenceId |-> {"a"},
     dataCitationId |-> {"a"}, dataFootnoteId |-> {"a"}]

\* validateTagAttributeApplicability
validateTagAttributeApplicability(node) ==
    /\ \A name \in node.attributes \cap DOMAIN AttributeTags :
          node.tag \in AttributeTags[name]
    /\ "target" \in node.attributes => "rel" \in node.attributes

\* htmlElementBaseSchema and the tags with children of their own kind.
htmlElementSchema(node) ==
    /\ Len(node.id) <= MaxIdWords
    /\ node.label = NullLabel \/ node.label \in 1 .. MaxLabel
    /\ Len(node.children) <= MaxChildren
    /\ node.tag \in {"img", "hr"} => node.children = <<>>
    /\ node.tag = "img" => {"src", "alt"} \subseteq node.attributes

\* The parent that an element of a list or of a table must have.
ParentTags ==
    [li |-> {"ol", "ul"}, thead |-> {"table"}, tbody |-> {"table"},
     tr |-> {"thead", "tbody"}, th |-> {"tr"}, td |-> {"tr"}]

NestedRight(item) ==
    item.node.tag \in DOMAIN ParentTags =>
        item.parentTag \in ParentTags[item.node.tag]

\* assertSafeInternalHref: every character of an id that links may use.
assertSafeInternalHref(id) == "?" \notin ToSet(id)

HrefSafe(node) ==
    CASE node.href.kind = "internal" ->
            assertSafeInternalHref(node.href.target)
      [] node.href.kind = "url" -> node.href.target = <<"safe">>
      [] node.href.kind = "none" -> TRUE

ElementIds(items) ==
    LET named == SelectSeq(items, LAMBDA item : item.node.id # NoId)
    IN  [i \in DOMAIN named |-> named[i].node.id]

internalHrefTargets(items) ==
    {items[i].node.href.target :
        i \in {k \in DOMAIN items : items[k].node.href.kind = "internal"}}

headingLevels(items) ==
    LET headings == SelectSeq(items, LAMBDA item : item.node.level > 0)
    IN  [i \in DOMAIN headings |-> headings[i].node.level]

\* The heading checks.
HeadingsProgress(levels) ==
    /\ levels # <<>> => levels[1] = 1
    /\ \A i \in 2 .. Len(levels) : levels[i] - levels[i - 1] <= 1

\* The landmark checks.
LandmarksValid(landmarks) ==
    LET Count(role) ==
            Cardinality({i \in DOMAIN landmarks : landmarks[i].role = role})
    IN  /\ Len(landmarks) \in 3 .. 10
        /\ Count("main") = 1
        /\ \A i \in DOMAIN landmarks :
              Count(landmarks[i].role) > 1 => landmarks[i].labelled

\* Every internal link has a target.
LinksResolve(items) ==
    internalHrefTargets(items) \subseteq ToSet(ElementIds(items))

\* No element id is used twice.
IdsUnique(items) == Distinct(ElementIds(items))

MainItems(items) == SelectSeq(items, LAMBDA item : item.node.tag = "main")

htmlDocumentSchema(doc) ==
    LET items == Traversal(doc.elements) IN
    /\ Len(items) <= MaxTotalElements
    /\ \A i \in DOMAIN items :
          /\ items[i].depth <= MaxTreeDepth
          /\ htmlElementSchema(items[i].node)
          /\ validateTagAttributeApplicability(items[i].node)
          /\ NestedRight(items[i])
          /\ HrefSafe(items[i].node)
          /\ items[i].node.asset \in {NoId} \cup doc.assetIds
    /\ IdsUnique(items)
    /\ doc.skipNavigationTargetId \in ToSet(ElementIds(items))
    /\ Len(MainItems(items)) = 1
    /\ MainItems(items)[1].node.children # <<>>
    /\ LandmarksValid(doc.landmarks)
    /\ LinksResolve(items)
    /\ HeadingsProgress(headingLevels(items))

=============================================================================
