----------------------------- MODULE Publishing -----------------------------
(***************************************************************************)
(* What the site shows: content.service.ts (texts by place, with media),   *)
(* media.service.ts with upload.service.ts (a row here, a file at the      *)
(* image host) and knowledge.service.ts (articles and when they were       *)
(* published).                                                             *)
(***************************************************************************)
EXTENDS Requests, Sequences, Functions

CONSTANTS
    Places,             \* page, section and key of a content
    ContentIds,
    MediaIds,
    ArticleIds

VARIABLES
    content,            \* id -> its place, Null once deleted
    media,              \* ids of media rows
    file,               \* ids of media whose file is at the host
    link,               \* content_media: <<content, media>>
    article,            \* id -> published?, Null once deleted
    halfRemoved         \* history: media of which a removal began to delete the file

ASSUME PublishingAssumption == Null \notin Places /\ Null \notin BOOLEAN

publishingVars == <<content, media, file, link, article, halfRemoved>>

PublishingInit ==
    /\ content = << >> /\ article = << >>
    /\ media = {} /\ file = {} /\ link = {} /\ halfRemoved = {}

-----------------------------------------------------------------------------
(***************************************************************************)
(* Contents                                                                *)
(***************************************************************************)
Contents == {c \in DOMAIN content : content[c] # Null}

Taken(place) == {c \in Contents : content[c] = place}

\* create has found nothing at the place, update and remove have found the content.
ContentCall(h) ==
    /\ \/ \E place \in Places :
            /\ Taken(place) = {}
            /\ Begin(h, [op |-> "createContent", pc |-> "write", place |-> place])
       \/ \E c \in Contents, place \in Places :
            Begin(h, [op |-> "updateContent", pc |-> "write", id |-> c, place |-> place])
       \/ \E c \in Contents : Begin(h, [op |-> "removeContent", pc |-> "write", id |-> c])
    /\ UNCHANGED publishingVars

\* The place is unique: a second content of it throws, and so does writing what
\* is gone.  Links go with the content.
WriteContent(h) ==
    LET c == handler[h] IN
    /\ AtAny(h, {"createContent", "updateContent", "removeContent"}, "write")
    /\ \/ /\ c.op = "createContent" /\ Taken(c.place) = {}
          /\ \E new \in ContentIds \ DOMAIN content : content' = With(content, new, c.place)
          /\ UNCHANGED link
       \/ /\ c.op = "updateContent" /\ c.id \in Contents /\ Taken(c.place) \subseteq {c.id}
          /\ content' = [content EXCEPT ![c.id] = c.place]
          /\ UNCHANGED link
       \/ /\ c.op = "removeContent" /\ c.id \in Contents
          /\ content' = [content EXCEPT ![c.id] = Null]
          /\ link' = {l \in link : l[1] # c.id}
       \/ /\ CASE c.op = "createContent" -> Taken(c.place) # {}
               [] c.op = "updateContent" -> c.id \notin Contents \/ ~(Taken(c.place) \subseteq {c.id})
               [] c.op = "removeContent" -> c.id \notin Contents
          /\ UNCHANGED <<content, link>>
    /\ Return(h)
    /\ UNCHANGED <<media, file, article, halfRemoved>>

\* addMediaToContent has found both.
AddMedia(h) ==
    /\ \E c \in Contents, m \in media :
        Begin(h, [op |-> "addMedia", pc |-> "insert", link |-> <<c, m>>])
    /\ UNCHANGED publishingVars

\* Both must still be there and the link new; otherwise the insert throws.
InsertLink(h) ==
    LET l == handler[h].link IN
    /\ At(h, "addMedia", "insert")
    /\ link' = IF l[1] \in Contents /\ l[2] \in media THEN link \cup {l} ELSE link
    /\ Return(h)
    /\ UNCHANGED <<content, media, file, article, halfRemoved>>

RemoveLink ==
    /\ AtOnce("removeLink")
    /\ \E l \in link : link' = link \ {l}
    /\ UNCHANGED <<content, media, file, article, halfRemoved>>

-----------------------------------------------------------------------------
(***************************************************************************)
(* Media                                                                   *)
(***************************************************************************)
UploadMedia(h) == Begin(h, [op |-> "upload", pc |-> "file"]) /\ UNCHANGED publishingVars

\* Ids nobody has, or is about to have.
Unused ==
    MediaIds \ (media \cup file \cup halfRemoved \cup
                {handler[h].id : h \in {g \in Busy : handler[g].op \in {"upload", "removeMedia"} /\
                                                        handler[g].pc # "file"}})

\* Variant: the row is made whether or not the host took the file.
Regardless(took) == TRUE

Proceeds(took) == took

\* The host takes the file, or the call throws.  An answer with neither an error nor a
\* result, for which an empty address would be stored, is left out.
UploadFile(h) ==
    /\ At(h, "upload", "file")
    /\ \E took \in BOOLEAN, m \in Unused :
        /\ file' = IF took THEN file \cup {m} ELSE file
        /\ IF Proceeds(took) THEN Goto(h, [op |-> "upload", pc |-> "row", id |-> m]) ELSE Return(h)
    /\ UNCHANGED <<content, media, link, article, halfRemoved>>

InsertMedia(h) ==
    /\ At(h, "upload", "row")
    /\ media' = media \cup {handler[h].id}
    /\ Return(h)
    /\ UNCHANGED <<content, file, link, article, halfRemoved>>

\* remove has found the row.
RemoveMedia(h) ==
    /\ \E m \in media : Begin(h, [op |-> "removeMedia", pc |-> "host", id |-> m])
    /\ UNCHANGED publishingVars

\* "Log but don't fail if Cloudinary deletion fails" (media.service.ts:101).
DeleteFile(h) ==
    LET m == handler[h].id IN
    /\ At(h, "removeMedia", "host")
    /\ \E done \in BOOLEAN : file' = IF done THEN file \ {m} ELSE file
    /\ halfRemoved' = halfRemoved \cup {m}
    /\ Goto(h, [handler[h] EXCEPT !.pc = "row"])
    /\ UNCHANGED <<content, media, link, article>>

\* Links go with the media; a row that is gone throws.
DeleteMedia(h) ==
    LET m == handler[h].id IN
    /\ At(h, "removeMedia", "row")
    /\ media' = media \ {m}
    /\ link' = {l \in link : l[2] # m}
    /\ Return(h)
    /\ UNCHANGED <<content, file, article, halfRemoved>>

-----------------------------------------------------------------------------
(***************************************************************************)
(* Articles                                                                *)
(***************************************************************************)
Articles == {a \in DOMAIN article : article[a] # Null}

Published(a) == a \in Articles /\ article[a]

CreateArticle ==
    /\ AtOnce("createArticle")
    /\ \E a \in ArticleIds \ DOMAIN article, now \in BOOLEAN : article' = With(article, a, now)
    /\ UNCHANGED <<content, media, file, link, halfRemoved>>

\* Variant: an update that does not name the time of publication takes it away.
AsSent(sent, seen) == sent

\* Whether the article is published after an update: as it was read, unless the
\* client sends a time.
PublishedAfter(sent, seen) == sent \/ seen

\* update, publish and remove have found the article.  late records that the
\* article was published since.
ArticleCall(h) ==
    /\ \E a \in Articles :
        \/ \E sent \in BOOLEAN :
            Begin(h, [op |-> "updateArticle", pc |-> "write", id |-> a,
                      to |-> PublishedAfter(sent, article[a]), late |-> FALSE])
        \/ Begin(h, [op |-> "publishArticle", pc |-> "write", id |-> a, to |-> TRUE, late |-> FALSE])
        \/ Begin(h, [op |-> "removeArticle", pc |-> "delete", id |-> a])
    /\ UNCHANGED publishingVars

Racing(h) ==
    {g \in Handlers \ {h} : At(g, "updateArticle", "write") /\ handler[g].id = handler[h].id}

WriteArticle(h) ==
    LET c == handler[h] IN
    /\ AtAny(h, {"updateArticle", "publishArticle"}, "write")
    /\ article' = IF c.id \in Articles THEN [article EXCEPT ![c.id] = c.to] ELSE article
    /\ handler' = [g \in Handlers |->
          CASE g = h -> Idle
            [] g \in Racing(h) -> [handler[g] EXCEPT !.late = @ \/ c.to]
            [] OTHER -> handler[g]]
    /\ UNCHANGED <<calls, workload, content, media, file, link, halfRemoved>>

DeleteArticle(h) ==
    /\ At(h, "removeArticle", "delete")
    /\ article' = [article EXCEPT ![handler[h].id] = Null]
    /\ Return(h)
    /\ UNCHANGED <<content, media, file, link, halfRemoved>>

-----------------------------------------------------------------------------
PublishingCalls(h) ==
    ContentCall(h) \/ AddMedia(h) \/ UploadMedia(h) \/ RemoveMedia(h) \/ ArticleCall(h)

PublishingSteps(h) ==
    \/ WriteContent(h) \/ InsertLink(h)
    \/ UploadFile(h) \/ InsertMedia(h) \/ DeleteFile(h) \/ DeleteMedia(h)
    \/ WriteArticle(h) \/ DeleteArticle(h)

PublishingEdits == RemoveLink \/ CreateArticle

-----------------------------------------------------------------------------
\* A media row, and with it every picture a content shows, has its file at the
\* host, although file and row are written and deleted apart, the host may fail
\* and the backend may stop between: only a removal that has begun leaves a row
\* without its file.
MediaRowsHaveFiles ==
    /\ media \subseteq file \cup halfRemoved
    /\ \A l \in link : l[1] \in Contents /\ l[2] \in media

\* What was published stays published: no edit takes an article off the site,
\* except one that had read it before it was published and writes after it.
PublishedStays ==
    [][\A a \in Articles :
        Published(a) /\ a \in Articles' /\ ~Published(a)' =>
            \E h \in Handlers : At(h, "updateArticle", "write") /\ handler[h].id = a
                                /\ handler[h].late]_<<article, requests>>
=============================================================================
