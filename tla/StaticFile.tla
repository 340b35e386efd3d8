----------------------------- MODULE StaticFile -----------------------------
(***************************************************************************)
(* The answer of ServerHandlerStatic.ServeHTTP (serverHandlerStatic.go) as *)
(* a function of the request and of the file that os.Stat saw.             *)
(*                                                                         *)
(* A byte range is a record of its first and last byte.  Times count       *)
(* halves of a second, and the dates of HTTP are whole seconds.  A header  *)
(* that is absent is None, one that does not parse is Bad; If-Range has a  *)
(* form: "none", "bad", "tag" or "date".                                  *)
(***************************************************************************)
EXTENDS Integers, Sequences, SequencesExt, FiniteSets

CONSTANTS None, Bad, AnyTag

Second == 2

\* path.Clean of a rooted path, given as its elements: "." and empty ones go,
\* ".." takes the one before it with it and stops at the root.
Clean(path) ==
    FoldLeft(LAMBDA done, e : CASE e \in {"", "."} -> done
                                [] e = ".." -> IF done = <<>> THEN done ELSE Front(done)
                                [] OTHER -> Append(done, e),
             <<>>, path)

isLocalPath(rel) == \A i \in DOMAIN rel : rel[i] # ".."

\* The entity tag of a file is weak: its time and its size.
etag(file) == [weak |-> TRUE, tag |-> <<file.mtime, file.size>>]

\* Weak comparison with a list of tags, or with "*", which is AnyTag.
etagMatch(header, tag) ==
    header = AnyTag \/ \E i \in DOMAIN header : header[i].tag = tag.tag

\* One element of a Range header: "-n", "a-" and "a-b", or something else.
\* The set of the range it asks for, cut to the file, or of none.
blockRange(spec, size) ==
    LET start == IF spec.form = "suffix"
                 THEN IF size - spec.n > 0 THEN size - spec.n ELSE 0
                 ELSE spec.a
        end == IF spec.form = "between" /\ spec.b < size THEN spec.b ELSE size - 1
    IN IF \/ spec.form = "other"
          \/ spec.form = "suffix" /\ spec.n <= 0
          \/ start >= size \/ start > end
       THEN {} ELSE {[start |-> start, end |-> end]}

\* Mutant: the end of the later range is taken as it is.
mergeRangeShrinks(r, b) ==
    IF r = <<>> \/ b.start > r[Len(r)].end + 1 THEN Append(r, b)
    ELSE [r EXCEPT ![Len(r)].end = b.end]

\* Overlapping and adjacent ranges become one; r is sorted by start.
mergeRange(r, b) ==
    LET last == r[Len(r)] IN
    IF r = <<>> THEN <<b>>
    ELSE IF b.start > last.end + 1 THEN Append(r, b)
    ELSE IF b.end > last.end THEN [r EXCEPT ![Len(r)].end = b.end]
    ELSE r

Length(b) == b.end - b.start + 1
Total(blocks) == FoldLeft(LAMBDA n, b : n + Length(b), 0, blocks)

\* raw as a sequence, by start.
inOrder(raw) ==
    CHOOSE s \in [1 .. Cardinality(raw) -> raw] :
        Range(s) = raw /\ \A i, j \in DOMAIN s : i < j => s[i].start <= s[j].start

ranges(specs, size) ==
    LET sorted == inOrder(UNION {blockRange(specs[i], size) : i \in DOMAIN specs})
        merged[i \in 0 .. Len(sorted)] ==
            IF i = 0 THEN <<>> ELSE mergeRange(merged[i - 1], sorted[i])
    IN IF size <= 0 THEN <<>> ELSE merged[Len(sorted)]

-----------------------------------------------------------------------------
\* An answer: the status, the Content-Length (None when the header is taken
\* away), the ranges it carries, and whether body is still to be called.
Answer(status, length, blocks, more) ==
    [status |-> status, length |-> length, blocks |-> blocks, more |-> more]

Full(req, file) ==
    IF req.method = "HEAD" THEN Answer(200, file.size, <<>>, FALSE)
    ELSE Answer(200, file.size, <<>>, TRUE)

NotModified(req, file) ==
    IF req.ifNoneMatch # None THEN etagMatch(req.ifNoneMatch, etag(file))
    ELSE /\ req.ifModifiedSince \notin {None, Bad}
         /\ file.mtime <= req.ifModifiedSince * Second + (Second - 1)

\* If-Range is an entity tag, compared whole, or a date.
useRange(req, file) ==
    \/ req.ifRange.form = "tag" /\ req.ifRange.tag = etag(file)
    \/ req.ifRange.form = "date" /\ req.ifRange.date = file.mtime \div Second

NotSatisfiable == Answer(416, 0, <<>>, FALSE)

setHeader(req, file) ==
    LET blocks == ranges(req.range, file.size) IN
    CASE NotModified(req, file) -> Answer(304, None, <<>>, FALSE)
      [] ~NotModified(req, file) /\ file.size <= 0 -> Answer(200, 0, <<>>, FALSE)
      [] ~NotModified(req, file) /\ file.size > 0 ->
           IF req.range = None THEN Full(req, file)
           ELSE IF req.ifRange.form # "none" /\ ~useRange(req, file) THEN Full(req, file)
           ELSE IF req.range = Bad \/ blocks = <<>> THEN NotSatisfiable
           ELSE IF Total(blocks) > file.size THEN Full(req, file)
           ELSE IF req.method = "HEAD"
           THEN Answer(206, IF Len(blocks) = 1 THEN Length(blocks[1]) ELSE None,
                       blocks, FALSE)
           ELSE Answer(206, None, blocks, TRUE)

\* body: all of the file, one range, or several as multipart.
body(a, file) ==
    CASE a.blocks = <<>> -> Answer(200, a.length, <<>>, FALSE)
      [] Len(a.blocks) = 1 -> Answer(206, Length(a.blocks[1]), a.blocks, FALSE)
      [] OTHER -> Answer(206, None, a.blocks, FALSE)

\* What is at the path: "file", "dir", "other" (a device, a pipe) or "none".
ServeHTTP(req, file) ==
    LET a == setHeader(req, file) IN
    CASE req.method \notin {"GET", "HEAD"} -> Answer(405, None, <<>>, FALSE)
      [] req.method \in {"GET", "HEAD"} ->
           IF ~isLocalPath(Clean(req.path)) \/ file.kind = "none"
           THEN Answer(404, None, <<>>, FALSE)
           ELSE IF file.kind # "file" THEN Answer(403, None, <<>>, FALSE)
           ELSE IF a.more THEN body(a, file) ELSE a
=============================================================================
