---------------------------- MODULE Publications ----------------------------
(***************************************************************************)
(* The publication model: what publicationSchema accepts, and the CTA      *)
(* guide that the template makes of the AI results.                        *)
(*                                                                         *)
(* An id is the sequence of its words, so that `${id}-title` and a join    *)
(* with '-' concatenate sequences, and two ways to write one id stay one   *)
(* id.  Texts are their lengths where a limit applies to them, and left    *)
(* out where every text that can get there is within the limit.            *)
(***************************************************************************)
EXTENDS Integers, Sequences, FiniteSets, SequencesExt, Selections

CONSTANTS
    MaxIdWords,        \* the longest id of an HTML element: 120 characters
    MaxScriptureText   \* the longest text of a scripture block: 1200

ASSUME PublicationAssumption == {MaxIdWords, MaxScriptureText} \subseteq Nat

NoId == <<>>

Cover == <<"cover">>
TocSection == <<"table", "of", "contents">>

Ids(things) == [i \in DOMAIN things |-> things[i].id]

Distinct(seq) == \A i, j \in DOMAIN seq : seq[i] = seq[j] => i = j

\* A block; the fields its type does not have keep these values.
Block(id, type) ==
    [id |-> id, type |-> type,
     level |-> 0,             \* of a heading
     items |-> 0,             \* of a list, or rows of a table
     title |-> 0,             \* the length of a title, or of joined references
     text |-> 0,              \* the length of a scripture block's text
     attributed |-> FALSE,    \* a quote's attribution
     asset |-> NoId,          \* of an image
     citationIds |-> <<>>, footnoteIds |-> <<>>]

Section(id, blocks) == [id |-> id, blocks |-> blocks]

Substantive(section) == section.id \notin {Cover, TocSection}

BodyPlaces(sections) == {i \in DOMAIN sections : Substantive(sections[i])}

BodySections(p) == KeepAt(p.sections, BodyPlaces(p.sections))

Blocks(p) == FlattenSeq([i \in DOMAIN p.sections |-> p.sections[i].blocks])

----------------------------------------------------------------------------
(* publicationSchema                                                       *)

UniqueIds(p) ==
    /\ Distinct(Ids(p.sections))
    /\ Distinct(Ids(Blocks(p)))
    /\ Distinct(Ids(p.assets))
    /\ Distinct(Ids(p.references))
    /\ Distinct(Ids(p.citations))
    /\ Distinct(Ids(p.footnotes))
    /\ Distinct(Ids(p.toc))

validTargetIds(p) == ToSet(Ids(p.sections)) \cup ToSet(Ids(Blocks(p)))

\* The ids of the entries up to the i-th, itself included.
TocIdsUpTo(p, i) == {p.toc[k].id : k \in 1 .. i}

\* publicationReferenceSchema
publicationReferenceSchema(reference) ==
    (reference.type = "internal") <=> (reference.targetId # NoId)

NoDanglingIds(p) ==
    /\ \A i \in DOMAIN p.references :
          p.references[i].type = "internal" =>
              p.references[i].targetId \in validTargetIds(p)
    /\ \A i \in DOMAIN p.citations :
          p.citations[i].referenceId
              \in {NoId} \cup ToSet(Ids(p.references))
    /\ \A i \in DOMAIN p.toc :
          /\ p.toc[i].targetId \in validTargetIds(p)
          /\ p.toc[i].parentId \in {NoId} \cup TocIdsUpTo(p, i)
    /\ p.coverImage \in {NoId} \cup ToSet(Ids(p.assets))
    /\ \A i \in DOMAIN Blocks(p) :
          LET block == Blocks(p)[i] IN
          /\ block.type = "image-placeholder" =>
                block.asset \in ToSet(Ids(p.assets))
          /\ ToSet(block.footnoteIds) \subseteq ToSet(Ids(p.footnotes))
          /\ ToSet(block.citationIds) \subseteq ToSet(Ids(p.citations))

\* publicationBlockSchema, as far as its limits can be met.
publicationBlockSchema(block) ==
    /\ block.type \in {"checklist", "bullet-list", "numbered-list"} =>
          block.items > 0
    /\ block.type = "scripture" => block.text \in 1 .. MaxScriptureText

publicationSchema(p) ==
    /\ \A i \in DOMAIN p.sections : p.sections[i].blocks # <<>>
    /\ \A i \in DOMAIN Blocks(p) : publicationBlockSchema(Blocks(p)[i])
    /\ \A i \in DOMAIN p.references :
          publicationReferenceSchema(p.references[i])
    /\ UniqueIds(p)
    /\ NoDanglingIds(p)
    /\ BodySections(p) # <<>>

----------------------------------------------------------------------------
(* The CTA guide template.  A word of the AI has a key, its spelling in    *)
(* small letters and single spaces, under which two words are the same.    *)

\* The first of the values with one key is kept.
deduplicate(values, key(_)) ==
    KeepAt(values, {i \in DOMAIN values :
                       \A k \in 1 .. i - 1 : key(values[k]) # key(values[i])})

\* uniqueNonEmpty; the schemas of the AI results let no empty word through.
uniqueNonEmpty(words) == deduplicate(words, LAMBDA word : word.key)

\* normalizeScriptureKey
normalizeScriptureKey(reference) ==
    <<reference.book.key, reference.chapter, reference.verses>>

\* VARIANT of deduplicateScriptureReferences: one per chapter.
deduplicateScriptureReferencesByChapter(references) ==
    deduplicate(references, LAMBDA reference :
        <<reference.book.key, reference.chapter>>)

deduplicateScriptureReferences(references) ==
    deduplicate(references, normalizeScriptureKey)

\* normalizeReferenceKey
normalizeReferenceKey(reference) ==
    CASE reference.type = "internal" -> <<"internal", reference.targetId>>
      [] reference.type = "external" -> <<"external", reference.url>>
      [] reference.type = "bible" -> <<"bible", reference.label>>

deduplicatePublicationReferences(references) ==
    deduplicate(references, normalizeReferenceKey)

\* The length of a reference's label, such as John 3:16-17.
LabelLength(reference) ==
    reference.book.length + (IF reference.verses = "range" THEN 6 ELSE 4)

Numbered(references) ==
    [i \in DOMAIN references |->
        [references[i] EXCEPT !.id = <<"ref", "scripture", ToString(i)>>]]

BibleReference(reference) ==
    [id |-> NoId, type |-> "bible", targetId |-> NoId, url |-> "none",
     label |-> normalizeScriptureKey(reference),
     length |-> LabelLength(reference)]

\* VARIANT of createReferences: repeated references are kept.
createReferencesRepeated(scripture) ==
    Numbered([i \in DOMAIN scripture |-> BibleReference(scripture[i])])

\* createReferences.  A label is known by its key, like the book in it.
createReferences(scripture) ==
    LET kept == deduplicateScriptureReferences(scripture)
        bibleReferences ==
            Numbered([i \in DOMAIN kept |-> BibleReference(kept[i])])
    IN  Numbered(deduplicatePublicationReferences(bibleReferences))

\* The length of the labels joined by '; '.
JoinedLength(references) ==
    FoldLeft(LAMBDA sum, reference : sum + reference.length + 2,
             0, references) - 2

createHeading(id, level) == [Block(id, "heading") EXCEPT !.level = level]

createTextBlock(id, type) == Block(id, type)

OptionalSection(present, section) == IF present THEN <<section>> ELSE <<>>

\* createSections
createSections(aiResult, references) ==
    LET keywords == uniqueNonEmpty(aiResult.keywords)
        reflections == uniqueNonEmpty(aiResult.reflections)
        joined == JoinedLength(references)
    IN  <<Section(Cover,
             <<createHeading(<<"cover", "h1">>, 1),
               createTextBlock(<<"cover", "subtitle">>, "paragraph")>>),
          Section(TocSection,
             <<createHeading(<<"toc", "h1">>, 1),
               createTextBlock(<<"toc", "note">>, "paragraph")>>),
          Section(<<"message", "summary">>,
             <<createHeading(<<"summary", "h1">>, 1),
               createHeading(<<"summary", "h2", "detail">>, 2),
               createTextBlock(<<"summary", "short">>, "key-takeaway"),
               createTextBlock(<<"summary", "detailed">>, "paragraph")>>)>>
        \o OptionalSection(keywords # <<>>, Section(<<"key", "themes">>,
             <<createHeading(<<"themes", "h1">>, 1),
               createHeading(<<"themes", "h2", "list">>, 2),
               [Block(<<"themes", "list">>, "bullet-list")
                   EXCEPT !.items = Len(keywords)]>>))
        \o OptionalSection(references # <<>>,
             Section(<<"scripture", "references">>,
             <<createHeading(<<"scripture", "h1">>, 1),
               createHeading(<<"scripture", "h2", "passages">>, 2),
               [Block(<<"scripture", "block">>, "scripture")
                   EXCEPT !.title = joined, !.text = joined]>>))
        \o OptionalSection(reflections # <<>>,
             Section(<<"reflection", "questions">>,
             <<createHeading(<<"reflection", "h1">>, 1),
               createHeading(<<"reflection", "h2", "questions">>, 2),
               [Block(<<"reflection", "list">>, "numbered-list")
                   EXCEPT !.items = Len(reflections)]>>))
        \o OptionalSection(references # <<>>, Section(<<"references">>,
             <<createHeading(<<"references", "h1">>, 1),
               [Block(<<"references", "table">>, "table")
                   EXCEPT !.items = Len(references)]>>))

\* normalizeHeadingLevel
normalizeHeadingLevel(previousLevel, requested) ==
    LET nextMax == IF previousLevel + 1 < 3 THEN previousLevel + 1 ELSE 3
    IN  IF requested <= 1 THEN 2
        ELSE IF requested > nextMax THEN nextMax ELSE requested

TocEntry(id, targetId, level, parentId) ==
    [id |-> id, targetId |-> targetId, level |-> level, parentId |-> parentId]

\* The entries of one section: itself, then its headings below level 1.
SectionEntries(section) ==
    LET sectionEntryId == <<"toc">> \o section.id
        AddHeading(before, block) ==
            LET level == normalizeHeadingLevel(before.previousLevel, block.level)
                entryId == <<"toc">> \o block.id
                parentId == IF level = 2 \/ before.parentLevel2Id = NoId
                            THEN sectionEntryId ELSE before.parentLevel2Id
            IN  [entries |-> Append(before.entries,
                        TocEntry(entryId, block.id, level, parentId)),
                 previousLevel |-> level,
                 parentLevel2Id |-> IF level = 2 THEN entryId
                                    ELSE before.parentLevel2Id]
        headings == KeepAt(section.blocks, {i \in DOMAIN section.blocks :
                        /\ section.blocks[i].type = "heading"
                        /\ section.blocks[i].level > 1})
        toc[n \in 0 .. Len(headings)] ==
            IF n = 0
            THEN [entries |-> <<TocEntry(sectionEntryId, section.id, 1, NoId)>>,
                  previousLevel |-> 1, parentLevel2Id |-> NoId]
            ELSE AddHeading(toc[n - 1], headings[n])
    IN  toc[Len(headings)].entries

\* createTocEntriesForSections
createTocEntriesForSections(sections) ==
    LET listed == KeepAt(sections, BodyPlaces(sections))
    IN  FlattenSeq([i \in DOMAIN listed |-> SectionEntries(listed[i])])

\* buildCtaGuidePublication
buildCtaGuidePublication(aiResult) ==
    LET references == createReferences(aiResult.scripture)
        sections == createSections(aiResult, references)
    IN  [sections |-> sections,
         toc |-> createTocEntriesForSections(sections),
         references |-> references,
         citations |-> [i \in DOMAIN references |->
             [id |-> <<"citation", ToString(i)>>,
              referenceId |-> references[i].id]],
         footnotes |-> <<>>,
         assets |-> <<[id |-> <<"cover", "image", "placeholder">>,
                       safe |-> TRUE]>>,
         coverImage |-> NoId]

=============================================================================
