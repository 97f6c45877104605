--------------------------------- MODULE Okf ---------------------------------
(***************************************************************************)
(* What internal/okf does to one page of a bundle and what it says of it:  *)
(* MigrateLegacyMarkdown and the link normalisation that follows it        *)
(* (migration.go), and validatePage (validator.go), as operators.          *)
(*                                                                         *)
(* Data abstraction.  A page is how it begins (its front), its line ends,  *)
(* its metadata and its links; the rest of the text takes no part.  A      *)
(* metadata value is missing, accepted by the validator, refused by it, or *)
(* a trust tier without its "T", which only a legacy comment may be.  A    *)
(* link has a target and stands in one of four places: in running text, in *)
(* a code span or fence, where only the validator's scanner still sees it  *)
(* (after a backtick without partner, or broken over two lines), or in     *)
(* running text with an empty label.  Whether a link is broken depends on  *)
(* the files there are when it is looked at.                               *)
(***************************************************************************)
EXTENDS FiniteSets

CONSTANTS
    Pages,          \* Markdown files that the walk reaches where they exist
    IndexPages,     \* those named index.md
    Hidden,         \* Markdown files in directories whose name starts with "."
    Missing,        \* a target inside the bundle that never exists
    Elsewhere       \* a URL, an anchor, or a path out of the bundle

ASSUME BundleAssumption ==
    /\ IndexPages \subseteq Pages
    /\ Missing \notin Pages \union Hidden
    /\ Elsewhere \notin Pages \union Hidden \union {Missing}

Fields == {"type", "title", "description", "timestamp", "memory_type",
           "source_events", "trust_tier", "confidence"}

Metadata == [Fields -> {"none", "ok", "bad", "bare"}]

NoMetadata == [f \in Fields |-> "none"]

\* `to` is the file that the link resolves to; a wiki link without a label gets
\* one from its target
Link == {l \in [form : {"wiki", "md"}, to : Pages \union Hidden \union {Missing, Elsewhere},
                at : {"text", "code", "stray", "unlabelled"}] :
            l.form = "wiki" => l.at # "unlabelled"}

Content == [front : {"plain", "legacy", "yaml", "broken", "cut"},
            eol : {"lf", "crlf"}, meta : Metadata, links : SUBSET Link]

\* a file whose writing has begun and not ended
CutFile == [front |-> "cut", eol |-> "lf", meta |-> NoMetadata, links |-> {}]

\* no file
NoFile == [CutFile EXCEPT !.front = "absent"]

\* a bundle gives each page its content, or NoFile
Files(bundle) == {p \in Pages : bundle[p] # NoFile}

-----------------------------------------------------------------------------
(* Migration of one page *)

\* what the migration's scanner of a line finds: it skips code spans and gives
\* the rest of a line up at a backtick without partner
Scanned(l) == l.at \in {"text", "unlabelled"}

\* os.Stat of the target, where the files of the bundle are `files`
IsBroken(l, files) == l.form = "md" /\ l.to \notin files \union Hidden \union {Elsewhere}

\* a link without a label has no text that could take its place
IsRemoved(l, files) == Scanned(l) /\ IsBroken(l, files) /\ l.at # "unlabelled"

ConvertLink(l) == IF Scanned(l) THEN [l EXCEPT !.form = "md"] ELSE l

ConvertWikiLinks(links) == {ConvertLink(l) : l \in links}

NormalizeMarkdownLinks(links, files) == {l \in links : ~IsRemoved(l, files)}

NormalizeTrustTier(value) == IF value = "bare" THEN "ok" ELSE value

\* every field but one is inferred from the path, the text or the clock where
\* there is no legacy value
Inferred(f) == IF f = "confidence" THEN "none" ELSE "ok"

FrontmatterFromLegacy(legacy) ==
    [f \in Fields |-> IF legacy[f] = "none" THEN Inferred(f)
                      ELSE NormalizeTrustTier(legacy[f])]

\* pages with frontmatter: the body's links; its lines are joined with \n
ConvertBody(c) ==
    IF ConvertWikiLinks(c.links) = c.links THEN c
    ELSE [c EXCEPT !.links = ConvertWikiLinks(c.links), !.eol = "lf"]

ConvertHeader(p, c) ==
    [front |-> IF p \in IndexPages THEN "plain" ELSE "yaml",
     eol   |-> "lf",
     meta  |-> IF p \in IndexPages THEN NoMetadata
               ELSE FrontmatterFromLegacy(c.meta),
     links |-> ConvertWikiLinks(c.links)]

MigrateLegacyMarkdown(p, c) ==
    IF c.front = "yaml" THEN ConvertBody(c)
    ELSE IF c.front = "plain" /\ ConvertWikiLinks(c.links) = c.links THEN c
    ELSE ConvertHeader(p, c)

NormalizePage(c, files) ==
    [c EXCEPT !.links = NormalizeMarkdownLinks(c.links, files),
              !.eol = IF c.front = "yaml" THEN "lf" ELSE @]

\* (mutant: links are normalised first, so that what becomes broken by the
\* conversion stays for the next run)
NormalizesFirst(p, c, files) == MigrateLegacyMarkdown(p, NormalizePage(c, files))

\* (mutant: the type of a legacy page is its comment's or none)
ForgetsType(p, c, files) ==
    LET m == NormalizePage(MigrateLegacyMarkdown(p, c), files)
    IN  IF c.front = "legacy" THEN [m EXCEPT !.meta["type"] = c.meta["type"]]
        ELSE m

\* migrateFile up to the decision to write; not for pages that do not parse
Migrated(p, c, files) == NormalizePage(MigrateLegacyMarkdown(p, c), files)

\* what a run that writes makes of a bundle that nobody else touches
MigratedBundle(bundle) ==
    [p \in Pages |-> IF p \in Files(bundle) THEN Migrated(p, bundle[p], Files(bundle))
                                            ELSE NoFile]

-----------------------------------------------------------------------------
(* Validation of one page *)

Error(x) == [severity |-> "error", of |-> x]

Warning(x) == [severity |-> "warning", of |-> x]

WantedFields == {"title", "description", "timestamp", "memory_type"}

ValidateFrontmatter(meta, strict) ==
    {Error(f) : f \in {g \in {"timestamp", "memory_type", "trust_tier", "confidence"} :
                            meta[g] \in {"bad", "bare"}}}
    \union {Error(f) : f \in {g \in {"type"} : meta[g] = "none"}}
    \union {Warning(f) : f \in {g \in {"type"} : strict /\ meta[g] = "bad"}}
    \union {Warning(f) : f \in {g \in WantedFields \union {"source_events", "trust_tier"} :
                                    meta[g] = "none"}}

\* the validator's scanner keeps what follows an unmatched backtick, and its
\* pattern for links reaches over line ends
Validated(l) == l.at # "code"

BrokenLinks(links, files) == {l \in links : Validated(l) /\ IsBroken(l, files)}

ValidateLinks(links, files) == {Warning("link") : l \in BrokenLinks(links, files)}

ValidatePage(p, c, files, strict) ==
    CASE c.front = "broken" -> {Error("front")}
      [] c.front = "yaml" -> ValidateFrontmatter(c.meta, strict) \union ValidateLinks(c.links, files)
      [] c.front # "yaml" /\ p \in IndexPages -> ValidateLinks(c.links, files)
      [] OTHER -> {Error("front")} \union {Warning(f) : f \in WantedFields}
                    \union ValidateLinks(c.links, files)

Errors(issues) == {i \in issues : i.severity = "error"}

ValidateBundle(bundle, strict) ==
    UNION {ValidatePage(p, bundle[p], Files(bundle), strict) : p \in Files(bundle)}

\* the exit code of `engram9 validate`
RunValidate(bundle, strict) ==
    LET issues == ValidateBundle(bundle, strict)
    IN  IF Errors(issues) # {} \/ (strict /\ issues # {}) THEN 1 ELSE 0
=============================================================================
