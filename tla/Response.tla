------------------------------ MODULE Response ------------------------------
(***************************************************************************)
(* Response.cpp: from a parsed request to a reply and its effect on the    *)
(* disk.  A path is a sequence of symbols; "/" is one, a symbol in Dots    *)
(* begins with a dot, any other is a piece of a name.  Locations match as  *)
(* strings do, so "/u" is a prefix of "/up".                               *)
(*                                                                         *)
(* build() and its handlers are operators: an Outcome is the reply and the *)
(* disk it leaves.  The module then runs them as a service: requests       *)
(* arrive one at a time, and the seconds that name raw uploads go by.      *)
(***************************************************************************)
EXTENDS Integers, Sequences, SequencesExt, TLC

CONSTANTS
    Sites,     \* configurations: sequences of LocationConfig
    Disks,     \* what the disk may hold at first, a function from paths
    ReadOnly,  \* directories in which no file can be made or removed
    Full,      \* directories with room for names and none for data
    Dots,      \* symbols that begin with a dot
    Requests,  \* [method, path, error, type, parts, content]
    Outputs,   \* what a script may print: [empty, status]
    MaxClock   \* bound of the clock

VARIABLES
    site,    \* config.locations
    disk,    \* the file system below the roots
    clock,   \* time(NULL)
    req,     \* the last request
    reply    \* and the reply to it

vars == <<site, disk, clock, req, reply>>

Dir == "a directory"
Methods == {"GET", "POST", "DELETE", "HEAD", "PUT", "PATCH", "OPTIONS", "TRACE", "CONNECT"}

EndsInSlash(p) == p # <<>> /\ Last(p) = "/"
Slashed(p) == IF p # <<>> /\ ~EndsInSlash(p) THEN Append(p, "/") ELSE p
Bare(p) == IF EndsInSlash(p) THEN Front(p) ELSE p

-----------------------------------------------------------------------------
(* stat(), open(), read and remove().                                      *)

IsDirectory(d, p) == Bare(p) \in DOMAIN d /\ d[Bare(p)] = Dir
FileExists(d, p) == IsDirectory(d, p) \/ p \in DOMAIN d

Parent(p) == SubSeq(p, 1, SelectLastInSeq(p, LAMBDA s : s = "/") - 1)

\* open() to write, which makes the file; no file is called "name/".
CanWrite(d, p) ==
    /\ ~EndsInSlash(p) /\ ~IsDirectory(d, p)
    /\ IsDirectory(d, Parent(p))
    /\ p \in DOMAIN d \/ Parent(p) \notin ReadOnly

\* write() may fail, which nobody looks at: the file is there, and empty.
Contents(p, content) == IF Parent(p) \in Full THEN "" ELSE content

Write(d, p, content) ==
    [q \in DOMAIN d \cup {p} |-> IF q = p THEN Contents(p, content) ELSE d[q]]

Read(d, p) == IF IsDirectory(d, p) THEN "" ELSE d[p]

\* remove() also takes a directory, if it is empty.
CanRemove(d, p) ==
    /\ Parent(Bare(p)) \notin ReadOnly
    /\ \A q \in DOMAIN d : IsPrefix(Slashed(p), q) => q = p

\* Mutant: the file is not removed.
StillThere(d, p) == d

WithoutFile(d, p) == [q \in DOMAIN d \ {Bare(p)} |-> d[q]]

-----------------------------------------------------------------------------
(* Replies.  entity is what the headers describe, bodySent whether it      *)
(* follows them; script is the file that is run for the reply, and while   *)
(* it runs there is no code yet.                                           *)

Empty == <<"empty">>
NoScript == <<>>

Answer(code, entity) ==
    [code |-> code, entity |-> entity, bodySent |-> entity # Empty,
     allow |-> {}, location |-> <<>>, script |-> NoScript]

ErrorReply(code) == Answer(code, <<"error", code>>)
Page == Answer(200, <<"page">>)
Created == Answer(201, <<"page">>)
Redirect(code, target) ==
    [Answer(IF code = 0 THEN 301 ELSE code, Empty) EXCEPT !.location = target]
RunScript(p) == [Answer(0, Empty) EXCEPT !.script = p]

Outcome(a, d) == [reply |-> a, disk |-> d]

\* Mutant: the page of a refused method names the default methods.
AllowDefaults(loc) == {"GET", "POST", "DELETE"}

Allow(loc) == loc.methods

NotAllowed(loc) == [ErrorReply(405) EXCEPT !.allow = Allow(loc)]

-----------------------------------------------------------------------------
(* Routing.                                                                *)

\* Mutant: the last location that matches wins.
LongerLast(locs, k, best) == TRUE

\* locPath.size() > bestLen
Longer(locs, k, best) ==
    Len(locs[k].path) > IF best = 0 THEN 0 ELSE Len(locs[best].path)

\* The loop of _matchLocation: the index of the location, 0 for none.
MatchLocation(path, locs) ==
    FoldLeft(LAMBDA best, k :
                 IF IsPrefix(locs[k].path, path) /\ Longer(locs, k, best) THEN k ELSE best,
             0, [k \in DOMAIN locs |-> k])

\* Mutant: HEAD has to be configured.
IsMethodAllowedVerbatim(method, loc) == method \in loc.methods

IsMethodAllowed(method, loc) ==
    (IF method = "HEAD" THEN "GET" ELSE method) \in loc.methods

Extension(p) ==
    LET k == SelectLastInSeq(p, LAMBDA s : s \in Dots)
    IN  IF k = 0 THEN <<>> ELSE SubSeq(p, k, Len(p))

IsCGI(p, loc) == Extension(p) \in loc.cgi

\* The path on disk: the location's prefix is replaced by its root.
FullPath(path, loc) ==
    LET rest == SubSeq(path, Len(loc.path) + 1, Len(path))
    IN  Slashed(loc.root) \o (IF rest # <<>> /\ Head(rest) = "/" THEN Tail(rest) ELSE rest)

-----------------------------------------------------------------------------
(* The handlers.                                                           *)

Listing(path) == Answer(200, <<"listing", path>>)

\* A file that exists: a script is run, anything else is sent.
ServeFile(d, p, loc) ==
    IF IsCGI(p, loc) THEN RunScript(p) ELSE Answer(200, <<"file", Read(d, p)>>)

ServeDirectory(r, d, loc) ==
    LET index == Slashed(FullPath(r.path, loc)) \o loc.index
    IN  CASE loc.index # <<>> /\ FileExists(d, index) -> ServeFile(d, index, loc)
          [] loc.index = <<>> \/ ~FileExists(d, index) ->
                IF loc.autoindex THEN Listing(r.path) ELSE ErrorReply(403)

\* Mutant: a directory is redirected although its path ends in a slash.
NeedsSlashAlways(path) == TRUE

NeedsSlash(path) == ~EndsInSlash(path)

HandleGET(r, d, loc) ==
    LET p == FullPath(r.path, loc)
    IN  CASE IsDirectory(d, p) /\ NeedsSlash(r.path)  -> Redirect(301, Append(r.path, "/"))
          [] IsDirectory(d, p) /\ ~NeedsSlash(r.path) -> ServeDirectory(r, d, loc)
          [] ~FileExists(d, p)                        -> ErrorReply(404)
          [] FileExists(d, p) /\ ~IsDirectory(d, p)   -> ServeFile(d, p, loc)

\* Mutant: the loop ends after the first part.
StoreFirst(dir, d, parts) ==
    IF parts = <<>> \/ Head(parts).name = <<>>
    THEN [disk |-> d, failed |-> FALSE]
    ELSE [disk |-> Write(d, dir \o Head(parts).name, Head(parts).content), failed |-> FALSE]

\* The loop over the parts of a form: the parts that name a file are written
\* one after the other until one cannot be opened.
Store(dir, d, parts) ==
    FoldLeft(LAMBDA s, part :
                 IF s.failed \/ part.name = <<>> THEN s
                 ELSE IF CanWrite(s.disk, dir \o part.name)
                      THEN [s EXCEPT !.disk = Write(@, dir \o part.name, part.content)]
                      ELSE [s EXCEPT !.failed = TRUE],
             [disk |-> d, failed |-> FALSE], parts)

UploadForm(r, d, loc) ==
    IF r.type = "form without boundary" THEN Outcome(ErrorReply(400), d)
    ELSE LET s == Store(Slashed(loc.uploadDir), d, r.parts)
         IN  Outcome(IF s.failed THEN ErrorReply(500) ELSE Created, s.disk)

\* Any other body is kept under a name made of the second.
UploadRaw(r, d, loc, now) ==
    LET p == Slashed(loc.uploadDir) \o <<"upload_", ToString(now)>>
    IN  IF CanWrite(d, p) THEN Outcome(Created, Write(d, p, r.content))
        ELSE Outcome(ErrorReply(500), d)

HandlePOST(r, d, loc, now) ==
    LET p == FullPath(r.path, loc)
    IN  CASE IsCGI(p, loc) -> Outcome(RunScript(p), d)
          [] ~IsCGI(p, loc) /\ loc.uploadDir = <<>> -> Outcome(Page, d)
          [] ~IsCGI(p, loc) /\ loc.uploadDir # <<>> ->
                IF r.type = "raw" THEN UploadRaw(r, d, loc, now) ELSE UploadForm(r, d, loc)

Protected(d, p) == IsDirectory(d, p)

HandleDELETE(r, d, loc) ==
    LET p == FullPath(r.path, loc)
    IN  IF ~FileExists(d, p) THEN Outcome(ErrorReply(404), d)
        ELSE IF Protected(d, p) THEN Outcome(ErrorReply(403), d)
        ELSE IF ~CanRemove(d, p) THEN Outcome(ErrorReply(500), d)
        ELSE Outcome(Page, WithoutFile(d, p))

-----------------------------------------------------------------------------
(* build()                                                                 *)

Dispatch(r, d, loc, now) ==
    CASE r.method \in {"GET", "HEAD"} -> Outcome(HandleGET(r, d, loc), d)
      [] r.method = "POST"            -> HandlePOST(r, d, loc, now)
      [] r.method = "DELETE"          -> HandleDELETE(r, d, loc)
      [] OTHER                        -> Outcome(ErrorReply(501), d)

\* Step 6 is only reached by what a handler answered, and not for a script.
Stripped(r, o) ==
    IF r.method = "HEAD" /\ o.reply.script = NoScript
    THEN [o EXCEPT !.reply.bodySent = FALSE] ELSE o

Route(r, d, loc, now) ==
    IF loc.redirect # <<>> THEN Outcome(Redirect(loc.redirectCode, loc.redirect), d)
    ELSE IF r.method \notin Methods THEN Outcome(ErrorReply(501), d)
    ELSE IF ~IsMethodAllowed(r.method, loc) THEN Outcome(NotAllowed(loc), d)
    ELSE Stripped(r, Dispatch(r, d, loc, now))

Build(r, d, now) ==
    IF r.error # 0 THEN Outcome(ErrorReply(r.error), d)
    ELSE LET k == MatchLocation(r.path, site)
         IN  IF k = 0 THEN Outcome(ErrorReply(404), d) ELSE Route(r, d, site[k], now)

\* setCGIResponse(): a script without output has failed, and one that prints
\* no "Status:" header means 200.
CgiResponse(out) ==
    IF out.empty THEN ErrorReply(500)
    ELSE Answer(IF out.status = 0 THEN 200 ELSE out.status, <<"output">>)

-----------------------------------------------------------------------------

NoRequest == [method |-> "none", path |-> <<>>, error |-> 0, type |-> "raw",
              parts |-> <<>>, content |-> ""]

Init ==
    /\ site \in Sites
    /\ disk \in Disks
    /\ clock = 0
    /\ req = NoRequest
    /\ reply = Answer(0, Empty)

Serve(r) ==
    LET o == Build(r, disk, clock)
    IN  /\ reply.script = NoScript
        /\ req' = r
        /\ reply' = o.reply
        /\ disk' = o.disk
        /\ UNCHANGED <<site, clock>>

ScriptAnswers(out) ==
    /\ reply.script # NoScript
    /\ reply' = CgiResponse(out)
    /\ UNCHANGED <<site, disk, clock, req>>

Tick == clock < MaxClock /\ clock' = clock + 1 /\ UNCHANGED <<site, disk, req, reply>>

Next ==
    \/ \E r \in Requests : Serve(r)
    \/ \E out \in Outputs : ScriptAnswers(out)
    \/ Tick

Spec == Init /\ [][Next]_vars

-----------------------------------------------------------------------------
(* What is handed over: LocationConfig, Request and what is on disk.       *)

Path == Seq(STRING)

LocationConfig ==
    [path : Path \ {<<>>}, root : Path, index : Path, methods : SUBSET STRING,
     autoindex : BOOLEAN, redirect : Path, redirectCode : Nat, uploadDir : Path,
     cgi : SUBSET Path]

Request ==
    [method : STRING, path : Path, error : {0} \cup 400..599,
     type : {"raw", "form", "form without boundary"},
     parts : Seq([name : Path, content : STRING]), content : STRING]

InputsTyped ==
    /\ Sites \subseteq Seq(LocationConfig)
    /\ Requests \subseteq Request
    /\ \A d \in Disks : d = [p \in DOMAIN d |-> d[p]] /\ \A p \in DOMAIN d : ~EndsInSlash(p)

\* Properties of configurations that not every configuration has: no location
\* allows HEAD and refuses GET, and no redirection is a 200.
HeadNeedsGet ==
    \A s \in Sites : \A k \in DOMAIN s : "HEAD" \in s[k].methods => "GET" \in s[k].methods
RedirectsElsewhere == \A s \in Sites : \A k \in DOMAIN s : s[k].redirectCode # 200

\* Nor is it that what moves does not move to below itself, and is a name and
\* not a name with a slash.
RedirectsAway ==
    \A s \in Sites : \A k \in DOMAIN s :
        s[k].redirect # <<>> => ~EndsInSlash(s[k].path) /\ ~IsPrefix(s[k].path, s[k].redirect)

-----------------------------------------------------------------------------
(* Properties.                                                             *)

As(r, method) == [r EXCEPT !.method = method]
Again(r) == Build(r, disk, clock).reply

\* _matchLocation finds the longest location that is a prefix of the path,
\* whatever the order of the locations in the configuration.
LongestPrefix ==
    LET matches == {k \in DOMAIN site : IsPrefix(site[k].path, req.path)}
        best    == MatchLocation(req.path, site)
    IN  IF matches = {} THEN best = 0
        ELSE /\ best \in matches
             /\ \A k \in matches : Len(site[k].path) <= Len(site[best].path)

\* The Allow header of a 405 tells the truth: no method it lists is refused
\* with 405 in its turn.
AllowedAnswered ==
    reply.code = 405 => \A m \in reply.allow : Again(As(req, m)).code # 405

\* The request fails before a handler has it.
FailsEarly(r) ==
    LET k == MatchLocation(r.path, site)
    IN  \/ r.error # 0
        \/ k = 0
        \/ site[k].redirect = <<>> /\ ~IsMethodAllowed(r.method, site[k])

\* HEAD is answered as GET is, with the same status and headers or by the same
\* script.  When the reply is complete, a body follows its headers exactly if
\* the request failed before a handler had it or a script answered it: so far
\* the code does what is said of it, "the same headers as GET but NO body"
\* (Response.cpp:98), and no farther (module AsCommented).
HeadLikeGet ==
    req.method = "HEAD" =>
        LET h == Again(req)
            g == Again(As(req, "GET"))
        IN  /\ h = [g EXCEPT !.bodySent = h.bodySent]
            /\ reply.script = NoScript =>
                  (reply.bodySent <=> FailsEarly(req) \/ h.script # NoScript)

\* The browser that follows the redirection of a directory is not redirected
\* again.
RedirectSettles ==
    reply.location = Append(req.path, "/") =>
        Again([req EXCEPT !.path = reply.location]).location = <<>>

\* The file on disk that a path stands for, if it stands for any.
Target(path) ==
    LET k == MatchLocation(path, site)
    IN  IF k = 0 THEN <<>> ELSE FullPath(path, site[k])

\* A file whose deletion was reported is gone, under every path that led to
\* it: two locations may share a root.  And no request, whatever the location,
\* takes away a directory or turns it into a file (Response.cpp:442-448).
GoneAfterDelete ==
    /\ req.method = "DELETE" /\ reply.code = 200 =>
          \A r \in Requests :
              r.method = "GET" /\ Target(r.path) = Target(req.path) => Again(r).code # 200
    /\ \E d \in Disks :
          \A p \in DOMAIN d : d[p] = Dir => p \in DOMAIN disk /\ disk[p] = Dir

\* A file is there, and has its data if there was room for them.
HasFile(d, p, content) == p \in DOMAIN d /\ (Parent(p) \notin Full => d[p] = content)

\* "File Uploaded Successfully" means that every file the form names is on
\* disk, or a raw upload under the name of the second it came in; and on a disk
\* that has room for it, with the content of the last part of that name, or the
\* body.
Stored ==
    reply = Created =>
        LET dir == Slashed(site[MatchLocation(req.path, site)].uploadDir)
            Kept(name, content) == HasFile(disk, dir \o name, content)
        IN  IF req.type = "raw"
            THEN \E t \in 0..clock : Kept(<<"upload_", ToString(t)>>, req.content)
            ELSE \A k \in DOMAIN req.parts :
                    req.parts[k].name # <<>> =>
                        \E j \in k..Len(req.parts) :
                            /\ req.parts[j].name = req.parts[k].name
                            /\ Kept(req.parts[j].name, req.parts[j].content)
                            /\ \A l \in (j + 1)..Len(req.parts) :
                                  req.parts[l].name # req.parts[k].name
=============================================================================
