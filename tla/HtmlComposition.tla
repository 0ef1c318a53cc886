-------------------------- MODULE HtmlComposition --------------------------
(***************************************************************************)
(* PublicationBuilder and PublicationHtmlComposer: AI results become a CTA *)
(* guide, and a publication becomes a semantic HTML document, or one of    *)
(* them is refused.  Both run without an await; TranscriptProcessing has   *)
(* their place in a job and the signal that cancels them.                  *)
(***************************************************************************)
EXTENDS HtmlDocuments

CONSTANTS
    AIResults,           \* results of the AI pipeline to build guides from
    OtherPublications    \* publications handed to the composer directly

\* What the AI schemas let through, as far as the guide looks at it.
Words == Seq([key : STRING, length : Nat])
ScriptureReferences ==
    Seq([book : [key : STRING, length : Nat], chapter : Nat,
         verses : {"single", "range"}])

ASSUME AIResultsAssumption ==
    AIResults \subseteq [keywords : Words, scripture : ScriptureReferences,
                        reflections : Words]

VARIABLES
    pc,           \* "build", "compose" or "done"
    aiResult,     \* the AI result a guide is built from, or NoAIResult
    publication,  \* the publication, once there is one
    document,     \* the HTML document, once there is one
    error         \* why there is none

vars == <<pc, aiResult, publication, document, error>>

----------------------------------------------------------------------------
(* Elements.                                                               *)

headingElement(id, level) ==
    [genericElement(id, "heading", <<>>) EXCEPT !.level = level]

listContainer(id, ordered, items) ==
    genericElement(id, IF ordered THEN "ol" ELSE "ul", items)

listElement(id, ordered, items) ==
    listContainer(id, ordered, [i \in 1 .. items |->
        genericElement(id \o <<"item", ToString(i)>>, "li", <<>>)])

\* A table of two columns, which the guide's reference table has.
Columns == 1 .. 2

tableElement(id, rows) ==
    LET headerRow ==
            genericElement(id \o <<"thead", "row">>, "tr",
                [c \in Columns |->
                    [genericElement(id \o <<"th", ToString(c)>>, "th", <<>>)
                        EXCEPT !.attributes = {"scope"}]])
        bodyRows == [r \in 1 .. rows |->
            genericElement(id \o <<"row", ToString(r)>>, "tr",
                [c \in Columns |->
                    genericElement(id \o <<"row", ToString(r),
                                           "cell", ToString(c)>>,
                                   "td", <<>>)])]
    IN  genericElement(id, "table",
            <<genericElement(id \o <<"thead">>, "thead", <<headerRow>>),
              genericElement(id \o <<"tbody">>, "tbody", bodyRows)>>)

\* An image with a caption of the given length, or with none.
imageElement(id, asset, caption) ==
    LET img == [genericElement(id \o <<"img">>, "img", <<>>)
                   EXCEPT !.attributes = {"src", "alt", "loading", "decoding",
                                          "referrerpolicy"}]
        figcaption == genericElement(id \o <<"caption">>, "figcaption", <<>>)
    IN  [genericElement(id, "figure",
                        IF caption = 0 THEN <<img>> ELSE <<img, figcaption>>)
            EXCEPT !.asset = asset,
                   !.label = IF caption = 0 THEN NullLabel ELSE caption]

\* A callout; title is the length of its title, NullLabel if it is given none.
\* An empty title makes no heading, but it is the label all the same.
calloutElement(id, title) ==
    LET body == genericElement(id \o <<"body">>, "p", <<>>)
        heading == headingElement(id \o <<"title">>, 3)
    IN  [genericElement(id, "aside",
                        IF title > 0 THEN <<heading, body>> ELSE <<body>>)
            EXCEPT !.label = title, !.attributes = {"dataPublicationBlock"}]

\* toSubHeadingLevel
toSubHeadingLevel(level) == IF level <= 2 THEN 3 ELSE 4

Link(id, href, attributes) ==
    [genericElement(id, "a", <<>>)
        EXCEPT !.href = href, !.attributes = {"href"} \cup attributes]

citationLink(id) ==
    Link(NoId, InternalHref(<<"appendix", "citation">> \o id),
         {"dataCitationId"})

footnoteLink(id) ==
    Link(NoId, InternalHref(<<"appendix", "footnote">> \o id),
         {"dataFootnoteId"})

\* appendReferenceLinks: the paragraphs that link a block to the appendix.
appendReferenceLinks(citationIds, footnoteIds) ==
    (IF citationIds = <<>> THEN <<>>
     ELSE <<genericElement(<<"citations">> \o FlattenSeq(citationIds), "p",
              [i \in DOMAIN citationIds |-> citationLink(citationIds[i])])>>)
    \o
    (IF footnoteIds = <<>> THEN <<>>
     ELSE <<genericElement(<<"footnotes">> \o FlattenSeq(footnoteIds), "p",
              [i \in DOMAIN footnoteIds |-> footnoteLink(footnoteIds[i])])>>)

----------------------------------------------------------------------------
(* Blocks and sections.                                                    *)

UntitledCallouts == {"reflection", "prayer", "key-takeaway", "warning",
                     "highlight"}

\* The block types whose citations and footnotes become links.
LinkedTypes == UntitledCallouts \cup
    {"paragraph", "quote", "journal-prompt", "call-to-action", "scripture",
     "checklist", "bullet-list", "numbered-list"}

\* The elements of the block itself.
BlockElements(block) ==
    CASE block.type = "heading" ->
            <<headingElement(block.id, toSubHeadingLevel(block.level))>>
      [] block.type = "paragraph" -> <<genericElement(block.id, "p", <<>>)>>
      [] block.type \in UntitledCallouts ->
            <<calloutElement(block.id, NullLabel)>>
      [] block.type = "journal-prompt" -> <<calloutElement(block.id, 1)>>
      [] block.type = "quote" ->
            <<genericElement(block.id, "blockquote", <<>>)>>
            \o IF block.attributed
               THEN <<genericElement(block.id \o <<"attribution">>, "p", <<>>)>>
               ELSE <<>>
      [] block.type \in {"call-to-action", "scripture", "sidebar"} ->
            <<calloutElement(block.id, block.title)>>
      [] block.type \in {"checklist", "bullet-list"} ->
            <<listElement(block.id, FALSE, block.items)>>
      [] block.type = "numbered-list" ->
            <<listElement(block.id, TRUE, block.items)>>
      [] block.type = "image-placeholder" ->
            <<imageElement(block.id, block.asset, block.title)>>
      [] block.type = "table" -> <<tableElement(block.id, block.items)>>
      [] block.type = "divider" -> <<genericElement(block.id, "hr", <<>>)>>

composeBlock(block) ==
    BlockElements(block) \o
    IF block.type \in LinkedTypes
    THEN appendReferenceLinks(block.citationIds, block.footnoteIds)
    ELSE <<>>

composeBodySection(section) ==
    genericElement(section.id, "section",
        <<headingElement(section.id \o <<"title">>, 2)>>
        \o FlattenSeq([i \in DOMAIN section.blocks |->
                          composeBlock(section.blocks[i])]))

composeMain(p) ==
    LET contentSections == BodySections(p)
    IN  genericElement(<<"main", "content">>, "main",
            [i \in DOMAIN contentSections |->
                composeBodySection(contentSections[i])])

----------------------------------------------------------------------------
(* The table of contents.                                                  *)

\* The entries that validateTocEntries keeps.
ListedEntries(entries) ==
    SelectSeq(entries, LAMBDA entry :
        entry.targetId \notin {Cover, TocSection})

EntryWith(entries, id) ==
    entries[CHOOSE i \in DOMAIN entries : entries[i].id = id]

\* Whether the way up from an entry comes back to one of the entries seen.
Cyclic(entries, entry) ==
    LET ids == ToSet(Ids(entries))
        up[n \in 0 .. Len(entries)] ==
            IF n = 0 THEN entry.id
            ELSE IF up[n - 1] \in ids THEN EntryWith(entries, up[n - 1]).parentId
            ELSE NoId
    IN  \E n \in 1 .. Len(entries) :
           up[n] \in ids \cap {up[k] : k \in 0 .. n - 1}

\* VARIANT of validateTocEntries: cycles are not looked for.
validateTocEntriesShallow(entries) ==
    /\ Distinct(Ids(entries))
    /\ \A i \in DOMAIN entries :
          entries[i].parentId \in {NoId} \cup ToSet(Ids(entries))

\* What validateTocEntries does not throw for, of the entries it keeps.
validateTocEntries(entries) ==
    /\ Distinct(Ids(entries))
    /\ \A i \in DOMAIN entries :
          /\ entries[i].parentId \in {NoId} \cup ToSet(Ids(entries))
          /\ ~Cyclic(entries, entries[i])

\* buildTocTree: the entries under one parent, in order.
EntriesUnder(entries, parentId) ==
    SelectSeq(entries, LAMBDA entry : entry.parentId = parentId)

tocNodeToListItem(entries, root) ==
    LET item[entry \in ToSet(entries)] ==
            LET link == Link(<<"toc", "link">> \o entry.id,
                             InternalHref(entry.targetId), {})
                below == EntriesUnder(entries, entry.id)
                items == [i \in DOMAIN below |-> item[below[i]]]
            IN  genericElement(<<"toc", "item">> \o entry.id, "li",
                    IF below = <<>> THEN <<link>>
                    ELSE <<link, listContainer(<<"toc", "children">> \o entry.id,
                                               TRUE, items)>>)
    IN  item[root]

\* The nav element, or none if the table of contents is empty.
tocNav(entries) ==
    LET roots == EntriesUnder(entries, NoId)
        list == listContainer(<<"toc", "root", "list">>, TRUE,
                    [i \in DOMAIN roots |->
                        tocNodeToListItem(entries, roots[i])])
    IN  IF roots = <<>> THEN <<>>
        ELSE <<genericElement(TocSection, "nav",
                 <<headingElement(<<"toc", "title">>, 2),
                   genericElement(<<"toc", "root", "list", "container">>,
                                  "section", <<list>>)>>)>>

----------------------------------------------------------------------------
(* The appendix.                                                           *)

\* One part of the appendix, unless it is empty.
AppendixPart(name, items) ==
    LET id == <<"appendix", name>> IN
    IF items = <<>> THEN <<>>
    ELSE <<genericElement(id, "section",
             <<headingElement(id \o <<"title">>, 2),
               genericElement(id \o <<"list", "container">>, "section",
                   <<listContainer(id \o <<"list">>, TRUE, items)>>)>>)>>

composeReferences(p) ==
    AppendixPart("references", [i \in DOMAIN p.references |->
        LET reference == p.references[i] IN
        genericElement(<<"appendix", "reference">> \o reference.id, "li",
            IF reference.url = "none" THEN <<>>
            ELSE <<Link(<<"appendix", "reference", "link">> \o reference.id,
                        [kind |-> "url", target |-> <<reference.url>>],
                        {"dataReferenceId", "target", "rel"})>>)])

composeCitations(p) ==
    AppendixPart("citations", [i \in DOMAIN p.citations |->
        genericElement(<<"appendix", "citation">> \o p.citations[i].id,
                       "li", <<>>)])

\* VARIANT of composeFootnotes: the entries are known by their numbers.
composeFootnotesNumbered(p) ==
    AppendixPart("footnotes", [i \in DOMAIN p.footnotes |->
        genericElement(<<"appendix", "footnote", ToString(i)>>, "li", <<>>)])

composeFootnotes(p) ==
    AppendixPart("footnotes", [i \in DOMAIN p.footnotes |->
        genericElement(<<"appendix", "footnote">> \o p.footnotes[i].id,
                       "li", <<>>)])

----------------------------------------------------------------------------
(* The document.                                                           *)

composeDocument(p) ==
    LET header == genericElement(<<"document", "header">>, "header",
            <<headingElement(<<"document", "title">>, 1),
              genericElement(<<"document", "subtitle">>, "p", <<>>)>>)
        nav == tocNav(ListedEntries(p.toc))
        footer == genericElement(<<"document", "footer">>, "footer",
            composeReferences(p) \o composeCitations(p) \o composeFootnotes(p))
        article == genericElement(<<"document", "article">>, "article",
            <<header>> \o nav \o <<composeMain(p), footer>>)
        Landmark(role, labelled) == [role |-> role, labelled |-> labelled]
    IN  [elements |-> <<article>>,
         assetIds |-> ToSet(Ids(p.assets)),
         skipNavigationTargetId |-> <<"main", "content">>,
         landmarks |-> <<Landmark("banner", TRUE)>>
             \o (IF nav = <<>> THEN <<>> ELSE <<Landmark("navigation", TRUE)>>)
             \o <<Landmark("main", FALSE), Landmark("contentinfo", FALSE)>>]

\* What compose refuses before it has a document.
Composes(p) ==
    /\ publicationSchema(p)
    /\ \A i \in DOMAIN p.assets : p.assets[i].safe
    /\ validateTocEntries(ListedEntries(p.toc))

NoAIResult == [keywords |-> <<>>, scripture |-> <<>>, reflections |-> <<>>]
NoPublication == [sections |-> <<>>]
NoDocument == [elements |-> <<>>]

Init ==
    /\ \/ /\ pc = "build"
          /\ aiResult \in AIResults
          /\ publication = NoPublication
       \/ /\ pc = "compose"
          /\ aiResult = NoAIResult
          /\ publication \in OtherPublications
    /\ document = NoDocument
    /\ error = "none"

Refuse(code) ==
    /\ pc' = "done"
    /\ error' = code
    /\ UNCHANGED <<aiResult, publication, document>>

\* PublicationBuilder.build
BuildGuide ==
    /\ pc = "build"
    /\ \E guide \in {buildCtaGuidePublication(aiResult)} :
          IF publicationSchema(guide)
          THEN /\ pc' = "compose"
               /\ publication' = guide
               /\ UNCHANGED <<aiResult, document, error>>
          ELSE Refuse("PUBLICATION_VALIDATION_ERROR")

\* PublicationHtmlComposer.compose
Compose ==
    /\ pc = "compose"
    /\ IF Composes(publication)
       THEN \E doc \in {composeDocument(publication)} :
               IF htmlDocumentSchema(doc)
               THEN /\ pc' = "done"
                    /\ document' = doc
                    /\ UNCHANGED <<aiResult, publication, error>>
               ELSE Refuse("HTML_VALIDATION_ERROR")
       ELSE Refuse("HTML_VALIDATION_ERROR")

Next == BuildGuide \/ Compose

Spec == Init /\ [][Next]_vars

----------------------------------------------------------------------------
(* What is checked.  The properties speak of the publication and of the    *)
(* finished document, not of the steps between them.                       *)

Accepted == pc = "done" /\ error = "none"

Listed == ListedEntries(publication.toc)

\* The elements under one of them, itself first, in document order: level by
\* level an element is followed by its children.
Preorder(root) ==
    LET Fresh(node) == [node |-> node, unfolded |-> FALSE]
        Unfold(item) ==
            IF item.unfolded THEN <<item>>
            ELSE <<[item EXCEPT !.unfolded = TRUE]>>
                 \o [i \in DOMAIN item.node.children |->
                        Fresh(item.node.children[i])]
        items[n \in 0 .. MaxTreeDepth] ==
            IF n = 0 THEN <<Fresh(root)>>
            ELSE LET before == items[n - 1]
                 IN  FlattenSeq([i \in DOMAIN before |-> Unfold(before[i])])
        all == items[MaxTreeDepth]
    IN  [i \in DOMAIN all |-> all[i].node]

\* The elements in document order.
Elements == Preorder(document.elements[1])

IdsOf(elements) == {elements[i].id : i \in DOMAIN elements}

\* The elements of the first part with the given tag.
Under(elements, tag) ==
    Preorder(SelectSeq(elements, LAMBDA node : node.tag = tag)[1])

NumberWith(elements, id) ==
    Cardinality({i \in DOMAIN elements : elements[i].id = id})

\* What composeMain renders: the body's sections and their blocks.
BodyBlocks(p) ==
    FlattenSeq([i \in DOMAIN BodySections(p) |-> BodySections(p)[i].blocks])

BodyIds(p) == ToSet(Ids(BodySections(p))) \cup ToSet(Ids(BodyBlocks(p)))

\* Every link of an accepted document leads to one element.  An entry for a
\* section or a block of the body leads into the main part, and citations and
\* footnotes to their entries in the appendix.  An entry for a block of the
\* cover or of the table of contents, which are not rendered, is accepted only
\* if something composed happens to have that id, and leads there.
LinksLand ==
    Accepted =>
        LET elements == Elements
            listed == Listed
            inMain == IdsOf(Under(elements, "main"))
            inFooter == IdsOf(Under(elements, "footer"))
            noting == {i \in DOMAIN elements :
                elements[i].attributes
                    \cap {"dataCitationId", "dataFootnoteId"} # {}}
        IN  /\ \A i \in DOMAIN listed :
                  /\ NumberWith(elements, listed[i].targetId) = 1
                  /\ listed[i].targetId \in BodyIds(publication) =>
                        listed[i].targetId \in inMain
            /\ \A i \in noting :
                  /\ NumberWith(elements, elements[i].href.target) = 1
                  /\ elements[i].href.target \in inFooter

\* No element of an accepted document shares its id: an id names a section or a
\* block of the publication, or something composed around it, never both.
IdsNameOneElement ==
    Accepted =>
        LET elements == Elements
            named == {i \in DOMAIN elements : elements[i].id # NoId}
        IN  Cardinality(IdsOf(elements) \ {NoId}) = Cardinality(named)

\* The entries shown in the lists of the table of contents, each with the entry
\* it is nested under.
EntriesShown(nav) ==
    LET items == SelectSeq(Preorder(nav), LAMBDA node : node.tag = "li")
        Entry(item) == SubSeq(item.id, 3, Len(item.id))
        Holding(item) == {i \in DOMAIN items :
            \E list \in ToSet(items[i].children) :
               list.tag = "ol" /\ item \in ToSet(list.children)}
        Parents(item) == {Entry(items[i]) : i \in Holding(item)}
    IN  [i \in DOMAIN items |-> <<Entry(items[i]), Parents(items[i])>>]

\* The navigation shows every entry that does not point to the cover or to the
\* table of contents itself, once, under its parent.
TocFaithful ==
    Accepted =>
        LET listed == Listed
            navs == SelectSeq(Elements, LAMBDA node : node.tag = "nav")
            shown == FlattenSeq([i \in DOMAIN navs |->
                                    EntriesShown(navs[i])])
        IN  /\ Len(shown) = Len(listed)
            /\ ToSet(shown) = {<<listed[i].id, {listed[i].parentId} \ {NoId}>> :
                                  i \in DOMAIN listed}

\* No heading of an accepted document is more than one level below the one that
\* precedes it in the document, although the schema goes through the tree level
\* by level.
HeadingsInOrder ==
    Accepted =>
        LET headings == SelectSeq(Elements, LAMBDA node : node.level > 0) IN
        /\ headings[1].level = 1
        /\ \A i \in 2 .. Len(headings) :
              headings[i].level <= headings[i - 1].level + 1

\* What a block cites is linked in its section, whatever else the block cites.
CitationsLinked ==
    Accepted =>
        \A section \in ToSet(BodySections(publication)) :
           LET nodes == Preorder(SelectSeq(Elements,
                            LAMBDA node : node.id = section.id)[1])
               targets == {nodes[k].href.target : k \in DOMAIN nodes}
           IN  \A b \in DOMAIN section.blocks :
                  LET block == section.blocks[b] IN
                  block.type # "heading" =>
                    /\ \A c \in ToSet(block.citationIds) :
                          <<"appendix", "citation">> \o c \in targets
                    /\ \A f \in ToSet(block.footnoteIds) :
                          <<"appendix", "footnote">> \o f \in targets

\* A document that the schema accepts is sound: its links lead where they say,
\* its ids name one element, its navigation shows the table of contents, its
\* headings skip no level, and what is cited is linked.
AcceptedDocumentsSound ==
    /\ LinksLand
    /\ IdsNameOneElement
    /\ TocFaithful
    /\ HeadingsInOrder
    /\ CitationsLinked

----------------------------------------------------------------------------
(* Which publications compose.                                             *)

\* Entries point into the body, and their parents are shown.
TocWellFormed(p) ==
    LET shown == ListedEntries(p.toc)
    IN  \A i \in DOMAIN shown :
           /\ shown[i].targetId \in BodyIds(p)
           /\ shown[i].parentId \in {NoId} \cup ToSet(Ids(shown))
           /\ shown[i].parentId # shown[i].id

Reserved == {"document", "main", "toc", "appendix", "citations", "footnotes"}

\* No id of a section or of a block of the body continues another one, starts
\* like the composer's own or is the navigation's; no two blocks cite the same
\* list, or one that is too long for an id; no reference has the id under which
\* the link of another one is composed.
PlainIds(p) ==
    LET names == Ids(BodySections(p)) \o Ids(BodyBlocks(p))
        blocks == BodyBlocks(p)
        Cited(b) == FlattenSeq(blocks[b].citationIds)
        Noted(b) == FlattenSeq(blocks[b].footnoteIds)
        Fits(id) == Len(id) < MaxIdWords
        linked == SelectSeq(p.references, LAMBDA r : r.url # "none")
    IN  /\ \A i, j \in DOMAIN names : i # j => ~IsPrefix(names[i], names[j])
        /\ \A i \in DOMAIN names :
              names[i] # TocSection /\ names[i][1] \notin Reserved
        /\ \A b, c \in DOMAIN blocks : b # c =>
              /\ Cited(b) # <<>> => Cited(b) # Cited(c)
              /\ Noted(b) # <<>> => Noted(b) # Noted(c)
        /\ \A b \in DOMAIN blocks : Fits(Cited(b)) /\ Fits(Noted(b))
        /\ \A i \in DOMAIN linked, j \in DOMAIN p.references :
              p.references[j].id # <<"link">> \o linked[i].id

\* The first heading block of a section is not of level 3.
HeadingsStartHigh(p) ==
    \A i \in DOMAIN BodySections(p) :
       LET headings == SelectSeq(BodySections(p)[i].blocks,
                                 LAMBDA block : block.type = "heading")
       IN  headings # <<>> => headings[1].level < 3

\* Callouts that take their title from the publication have one that is neither
\* empty nor longer than a label may be.
TitlesFit(p) ==
    \A block \in ToSet(BodyBlocks(p)) :
       block.type \in {"call-to-action", "scripture", "sidebar"} =>
           block.title \in 1 .. MaxLabel

EntryDepth(entries, entry) ==
    LET depth[e \in ToSet(entries)] ==
            IF e.parentId = NoId THEN 1
            ELSE 1 + depth[EntryWith(entries, e.parentId)]
    IN  depth[entry]

\* The number of elements a block takes, counted from the publication: the
\* block's own, what is in it, and a paragraph of links for what it cites.
BlockSize(block) ==
    LET Links(ids) == IF ids = <<>> THEN 0 ELSE 1 + Len(ids)
        inside ==
            CASE block.type \in UntitledCallouts -> 1
              [] block.type \in {"journal-prompt", "call-to-action",
                                 "scripture", "sidebar"} -> 2
              [] block.type = "quote" -> IF block.attributed THEN 1 ELSE 0
              [] block.type \in {"checklist", "bullet-list",
                                 "numbered-list"} -> block.items
              [] block.type = "image-placeholder" ->
                    IF block.title = 0 THEN 1 ELSE 2
              [] block.type = "table" -> 5 + 3 * block.items
              [] OTHER -> 0
    IN  1 + inside + IF block.type \in LinkedTypes
                     THEN Links(block.citationIds) + Links(block.footnoteIds)
                     ELSE 0

\* The number of elements of the whole document.  The navigation and each part
\* of the appendix have four around their lists; six are in every document.
DocumentSize(p) ==
    LET shown == ListedEntries(p.toc)
        parents == {shown[i].parentId : i \in DOMAIN shown} \ {NoId}
        Part(n) == IF n = 0 THEN 0 ELSE 4 + n
    IN  6 + Part(2 * Len(shown) + Cardinality(parents))
          + 2 * Len(BodySections(p))
          + FoldLeft(LAMBDA sum, block : sum + BlockSize(block),
                     0, BodyBlocks(p))
          + Part(Len(p.references)) + Part(Len(p.citations))
          + Part(Len(p.footnotes))
          + Cardinality({i \in DOMAIN p.references :
                            p.references[i].url # "none"})

\* The lists are no longer, the table of contents no deeper and the document no
\* larger than the HTML schema allows.
SizesFit(p) ==
    /\ \A n \in {Len(p.references), Len(p.citations), Len(p.footnotes),
                 Len(p.toc)} : n <= MaxChildren
    /\ \A i \in DOMAIN BodySections(p) :
          Len(composeBodySection(BodySections(p)[i]).children) <= MaxChildren
    /\ LET shown == ListedEntries(p.toc) IN
       \A entry \in ToSet(shown) :
          2 * EntryDepth(shown, entry) + 4 <= MaxTreeDepth
    /\ DocumentSize(p) <= MaxTotalElements

UrlsSafe(p) ==
    /\ \A i \in DOMAIN p.references : p.references[i].url # "unsafe"
    /\ \A i \in DOMAIN p.assets : p.assets[i].safe
    /\ \A block \in ToSet(BodyBlocks(p)) :
          "?" \notin ToSet(FlattenSeq(block.citationIds \o block.footnoteIds))
    /\ \A i \in DOMAIN p.toc : "?" \notin ToSet(p.toc[i].targetId)

\* A publication that its schema accepts becomes a document, unless its table
\* of contents points out of the body, its ids run into each other or into the
\* composer's own, a section's headings start at level 3, a callout's title
\* does not fit, a list, the nesting or the whole document is too large, or a
\* URL is unsafe: the publications of the run show no other reason to fail.
SoundPublicationsCompose ==
    /\ pc = "done" /\ publication # NoPublication
    /\ publicationSchema(publication)
    /\ TocWellFormed(publication) /\ PlainIds(publication)
    /\ HeadingsStartHigh(publication) /\ TitlesFit(publication)
    /\ SizesFit(publication) /\ UrlsSafe(publication)
    => error = "none"

----------------------------------------------------------------------------
(* CTA guides.                                                             *)

\* Whatever the AI results, a guide comes out as a document, unless it names
\* more scripture than the label of its scripture block holds.
GuidesCompose ==
    pc = "done" /\ aiResult # NoAIResult =>
        LET keys == {normalizeScriptureKey(aiResult.scripture[i]) :
                        i \in DOMAIN aiResult.scripture}
            FirstWith(key) == CHOOSE i \in DOMAIN aiResult.scripture :
                /\ normalizeScriptureKey(aiResult.scripture[i]) = key
                /\ \A k \in 1 .. i - 1 :
                      normalizeScriptureKey(aiResult.scripture[k]) # key
            length == FoldFunction(+, 0, [key \in keys |->
                LabelLength(aiResult.scripture[FirstWith(key)]) + 2]) - 2
        IN  (error = "none") <=> (length <= MaxLabel)

\* A guide lists each scripture reference once, in the order the AI gave them,
\* cites each of them, has the references section exactly if there is one, and
\* its table of contents lists exactly the sections of the body.
GuidesFaithful ==
    aiResult # NoAIResult /\ publication # NoPublication =>
        LET p == publication
            labels == [i \in DOMAIN p.references |-> p.references[i].label]
            given == [i \in DOMAIN aiResult.scripture |->
                         normalizeScriptureKey(aiResult.scripture[i])]
            Position(label) ==
                CHOOSE i \in DOMAIN given : /\ given[i] = label
                    /\ \A k \in 1 .. i - 1 : given[k] # label
        IN  /\ ToSet(labels) = ToSet(given)
            /\ \A i, k \in DOMAIN labels :
                  i < k => Position(labels[i]) < Position(labels[k])
            /\ {p.citations[i].referenceId : i \in DOMAIN p.citations}
                  = ToSet(Ids(p.references))
            /\ (<<"references">> \in ToSet(Ids(p.sections)))
                  <=> aiResult.scripture # <<>>
            /\ {p.toc[i].targetId : i \in {k \in DOMAIN p.toc :
                                             p.toc[k].level = 1}}
                  = ToSet(Ids(BodySections(p)))

=============================================================================
