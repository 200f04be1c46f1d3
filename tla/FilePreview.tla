----------------------------- MODULE FilePreview -----------------------------
(***************************************************************************)
(* Reading a file that an upload may still be writing: Preview, Content with *)
(* and without a Range header, and the streamed Download.  Each of them      *)
(* reads the row more than once, and the size in the row is what the client  *)
(* declared until a completion or a scan has seen the object.                *)
(*                                                                         *)
(* Abstractions.  A file is its number of bytes.  Whether the account's      *)
(* public URL answers the probe is left open while the object is there.      *)
(* Headers that do not parse are refused at once and are left out, as are    *)
(* the links of the other download modes, which S3 serves.                   *)
(***************************************************************************)
EXTENDS PresignedUpload

CONSTANTS
  Readers,              \* requests that read the file
  Ranges,               \* byte ranges that clients ask for
  MaxPreviewProxyBytes

Open == -1   \* "bytes=n-" names no last byte

ByteRange == [from : Nat, to : Nat \cup {Open}]

ASSUME RangeAssumption == Ranges \subseteq ByteRange /\ MaxPreviewProxyBytes \in Nat

VARIABLE reader   \* what each of them is doing, and what it was last answered

uploadVars == vars

previewVars == <<vars, reader>>

-----------------------------------------------------------------------------
Kinds == {"media", "fetchBased", "unsupported"}

NoLength == -1   \* no Content-Length header

Reply == [code : {"none", "failed", "tooLarge", "badRange", "whole", "part",
                  "direct", "proxy", "fallback"},
          offset : Nat,                     \* Content-Range: offset, length, total
          length : Nat \cup {NoLength},     \* Content-Length
          total : Nat,
          body : Nat]                       \* bytes that are sent

NoReply == [code |-> "none", offset |-> 0, length |-> NoLength, total |-> 0, body |-> 0]

Reader == [op : {"none", "preview", "range", "whole", "stream"},
           pc : {"idle", "readPreview", "resolve", "readContent", "readAgain", "get"},
           asked : ByteRange,
           item : Row,          \* the row as this request has it in hand
           checked : BOOLEAN,   \* ghost: the row was ready when its size was looked at
           told : BOOLEAN,      \* ghost: the last preview of a ready file said "proxy"
           reply : Reply]

Resting == [op |-> "none", pc |-> "idle", asked |-> [from |-> 0, to |-> Open],
            item |-> NoRow, checked |-> FALSE, told |-> FALSE, reply |-> NoReply]

PreviewTypeOK == TypeOK /\ reader \in [Readers -> Reader]

PreviewInit == Init /\ reader = [d \in Readers |-> Resting]

Continue(d, q) == reader' = [reader EXCEPT ![d] = q] /\ UNCHANGED uploadVars

ReaderAt(d, label) == reader[d].pc = label

Answer(d, reply) == Continue(d, [reader[d] EXCEPT !.pc = "idle", !.reply = reply])

Refuse(d, code) == Answer(d, [NoReply EXCEPT !.code = code])

Ask(d, op, label, range) ==
  /\ ReaderAt(d, "idle") /\ row.state = "live"
  /\ Continue(d, [Resting EXCEPT !.op = op, !.pc = label, !.asked = range,
                                 !.told = IF op = "preview" THEN FALSE ELSE reader[d].told])

AskPreview(d) == Ask(d, "preview", "readPreview", Resting.asked)

AskContent(d) ==
  \/ Ask(d, "whole", "readContent", Resting.asked)
  \/ \E range \in Ranges : Ask(d, "range", "readContent", range)

AskDownload(d) == Ask(d, "stream", "readAgain", Resting.asked)

-----------------------------------------------------------------------------
(* Preview.                                                                *)

ReadForPreview(d) ==
  /\ ReaderAt(d, "readPreview")
  /\ IF row.state = "live"
       THEN Continue(d, [reader[d] EXCEPT !.item = row, !.pc = "resolve"])
       ELSE Refuse(d, "failed")

\* Mutated form of DecidePreviewStrategy: files beyond the cap are proxied.
ProxyBeyondCap(kind, size, reachable) ==
  CASE kind = "media" -> "direct"
    [] kind = "fetchBased" -> IF size <= MaxPreviewProxyBytes + 1 THEN "proxy"
                              ELSE IF reachable THEN "direct" ELSE "fallback"
    [] OTHER -> "fallback"

DecidePreviewStrategy(kind, size, reachable) ==
  CASE kind = "media" -> "direct"
    [] kind = "fetchBased" -> IF size <= MaxPreviewProxyBytes THEN "proxy"
                              ELSE IF reachable THEN "direct" ELSE "fallback"
    [] OTHER -> "fallback"

PublicURLReachable == {FALSE} \cup {object # NoObject}

\* The driver and the download link are got whatever the strategy will be, so
\* an error of either fails the preview.
ResolvePreview(d) ==
  /\ ReaderAt(d, "resolve")
  /\ \/ /\ row.state = "live"
        /\ \E kind \in Kinds, reachable \in PublicURLReachable :
             LET strategy == DecidePreviewStrategy(kind, reader[d].item.size, reachable)
             IN  Continue(d, [reader[d] EXCEPT
                   !.pc = "idle",
                   !.told = strategy = "proxy" /\ reader[d].item.status = "ready",
                   !.reply = [NoReply EXCEPT !.code = strategy]])
     \/ (row.state # "live" \/ S3MayFail) /\ Refuse(d, "failed")

-----------------------------------------------------------------------------
(* Content and Download.                                                   *)

\* Mutated form of ParseRangeHeader: an end is not part of its range.
ParseExclusive(range, size) ==
  [ok     |-> range.from < size /\ (range.to = Open \/ range.from <= range.to),
   offset |-> range.from,
   length |-> (IF range.to = Open \/ range.to >= size THEN size ELSE range.to) - range.from]

\* Mutated form of ParseRangeHeader: ends are taken as they are asked for.
ParseUnbounded(range, size) ==
  [ok     |-> range.from < size /\ (range.to = Open \/ range.from <= range.to),
   offset |-> range.from,
   length |-> (IF range.to = Open THEN size - 1 ELSE range.to) - range.from + 1]

ParseRangeHeader(range, size) ==
  [ok     |-> range.from < size /\ (range.to = Open \/ range.from <= range.to),
   offset |-> range.from,
   length |-> (IF range.to = Open \/ range.to >= size THEN size - 1 ELSE range.to)
              - range.from + 1]

\* Mutated form of ReadForContent: the cap is not enforced.
ReadUncapped(d) ==
  /\ ReaderAt(d, "readContent")
  /\ \/ row.state # "live" /\ Refuse(d, "failed")
     \/ /\ row.state = "live"
        /\ Continue(d, [reader[d] EXCEPT !.item = row, !.checked = row.status = "ready",
                                         !.pc = "readAgain"])

\* The size of the row is held against the cap, then the range against the size.
ReadForContent(d) ==
  LET held == [reader[d] EXCEPT !.item = row, !.checked = row.status = "ready"]
      code == IF row.size > MaxPreviewProxyBytes THEN "tooLarge" ELSE "badRange"
      fits == /\ row.size <= MaxPreviewProxyBytes
              /\ held.op = "range" => ParseRangeHeader(held.asked, row.size).ok
  IN  /\ ReaderAt(d, "readContent")
      /\ \/ row.state # "live" /\ Refuse(d, "failed")
         \/ /\ row.state = "live" /\ fits
            /\ Continue(d, [held EXCEPT !.pc = "readAgain"])
         \/ /\ row.state = "live" /\ ~fits
            /\ Continue(d, [held EXCEPT !.pc = "idle",
                                        !.reply = [NoReply EXCEPT !.code = code]])

\* GetItemStream and GetItemRange read the row and get the driver themselves;
\* only the former hands its row to the controller.
ReadAgain(d) ==
  /\ ReaderAt(d, "readAgain")
  /\ \/ /\ row.state = "live"
        /\ Continue(d, [reader[d] EXCEPT !.item = IF reader[d].op = "range" THEN @ ELSE row,
                                         !.pc = "get"])
     \/ (row.state # "live" \/ S3MayFail) /\ Refuse(d, "failed")

LeastOf(m, n) == IF m <= n THEN m ELSE n

\* S3 cuts a range off at the end of the object and refuses one beyond it.
GetRange(d) ==
  LET range == ParseRangeHeader(reader[d].asked, reader[d].item.size)
  IN  /\ ReaderAt(d, "get") /\ reader[d].op = "range"
      /\ \/ /\ range.offset < object
            /\ Answer(d, [code |-> "part", offset |-> range.offset,
                          length |-> range.length, total |-> object,
                          body |-> LeastOf(range.offset + range.length, object) - range.offset])
         \/ (range.offset >= object \/ S3MayFail) /\ Refuse(d, "failed")

Get(d) ==
  /\ ReaderAt(d, "get") /\ reader[d].op # "range"
  /\ \/ /\ object # NoObject
        /\ Answer(d, [code |-> "whole", offset |-> 0,
                      length |-> IF reader[d].item.size > 0 THEN reader[d].item.size ELSE NoLength,
                      total |-> object, body |-> object])
     \/ (object = NoObject \/ S3MayFail) /\ Refuse(d, "failed")

-----------------------------------------------------------------------------
AskSomething(d) == AskPreview(d) \/ AskContent(d) \/ AskDownload(d)

Serve(d) ==
  \/ ReadForPreview(d) \/ ResolvePreview(d)
  \/ ReadForContent(d) \/ ReadAgain(d) \/ GetRange(d) \/ Get(d)

PreviewNext ==
  \/ Next /\ UNCHANGED reader
  \/ \E d \in Readers : AskSomething(d) \/ Serve(d)

PreviewSpec == PreviewInit /\ [][PreviewNext]_previewVars

-----------------------------------------------------------------------------
(* Properties.  What a client is answered about a row that was ready when    *)
(* its size was looked at; a row whose upload has not been confirmed shows    *)
(* the size that the client declared.                                        *)

\* Byte b of the file is asked for.
Asks(range, b) == range.from <= b /\ (range.to = Open \/ b <= range.to)

\* A range is answered with those bytes of the object that were asked for and
\* no others, and refused only when the object has none of them: the size that
\* the range was cut off at is that of the object, although the row is read
\* before the object is.
RangeAsAsked ==
  \A d \in Readers : reader[d].checked =>
    LET reply == reader[d].reply
        Bytes == 0..(object + reply.body)
        Sent(b) == reply.offset <= b /\ b < reply.offset + reply.body
    IN  /\ reply.code = "part" =>
             \A b \in Bytes : Sent(b) <=> Asks(reader[d].asked, b) /\ b < object
        /\ reply.code = "badRange" =>
             \A b \in Bytes : ~(Asks(reader[d].asked, b) /\ b < object)

\* The lengths that the headers announce are those of the body, for ranges and
\* for whole files, the latter with the size of the second read; only an empty
\* object may be announced with the declared size.
LengthIsBody ==
  \A d \in Readers :
    LET reply == reader[d].reply
    IN  /\ reply.code = "part" /\ reader[d].checked =>
             reply.length = reply.body /\ reply.offset + reply.length <= reply.total
        /\ reply.code = "whole" /\ reader[d].item.status = "ready" =>
             reply.length \in {NoLength, reply.body} \/ object = 0

\* "enforces the preview size cap server-side": no more than the cap is proxied
\* for a preview, the row being ready when its size was held against the cap.
CapHolds ==
  \A d \in Readers :
    reader[d].checked /\ reader[d].reply.code \in {"whole", "part"} =>
      reader[d].reply.body <= MaxPreviewProxyBytes

\* "Fetch-based files are proxied while they fit the cap": a client that was
\* told to fetch a ready file through the proxy is not sent away as too large,
\* whatever completions and scans wrote in between.
ProxyIsServed ==
  \A d \in Readers :
    reader[d].told /\ reader[d].checked /\ reader[d].reply.code = "tooLarge" => object = 0

=============================================================================
