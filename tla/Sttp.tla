-------------------------------- MODULE Sttp --------------------------------
(***************************************************************************)
(* inetin's sttp (sttp.cpp): one HTTP request by libcurl, with the         *)
(* response saved to a file that is named by -d or -D and opened before    *)
(* the request, or named by the server (-Dd) and opened by the first byte  *)
(* of the body.  libcurl is external: it calls header_callback for the     *)
(* lines of every response and for a body's trailers, write_callback for   *)
(* the body of the last one, and read_callback for what is uploaded.       *)
(***************************************************************************)
EXTENDS Integers, Sequences

CONSTANTS MaxHops, MaxChunks   \* most responses before the last, most pieces of a body

ASSUME HttpAssumption == MaxHops \in Nat /\ MaxChunks \in Nat \ {0}

VARIABLE http   \* the program: see HttpStart

-----------------------------------------------------------------------------
\* Where the body goes: to standard output, -d, -D, -Dd.  upload: -U with a file of its
\* own, or with the file the body goes to.  headers: to the terminal (-rH, -v), to a file
\* (-rHd).  timed: -t.
HttpOptions ==
  {o \in [target : {"stdout", "existing", "file", "remote"}, follow : BOOLEAN,
          timed : BOOLEAN, headers : {"none", "terminal", "file"},
          upload : {"none", "other", "same"}] :
     o.upload = "same" => o.target \in {"existing", "file"}}

\* opt, pc, open files, remote_filename (0: from the URL asked for, else the number of
\* the headers that gave it), output_opened, output_error, the number of responses, the
\* pieces of the body and how many write_callback has taken, what curl_easy_perform
\* returned, the exit status; and history: which of the headers gave a name, the name
\* under which -Dd's file was made (-1: none yet), which callback ended the transfer,
\* whether a byte of the upload was sent, whether -d's file exists, which streams lost
\* bytes they had taken.
HttpStart(opt, exists) ==
  [opt |-> opt, pc |-> "target", files |-> {}, remote |-> 0, opened |-> FALSE,
   outputError |-> FALSE, responses |-> 0, chunks |-> 0, written |-> 0, result |-> "none",
   exit |-> -1, disposed |-> <<>>, name |-> -1, aborted |-> "none", sent |-> FALSE,
   exists |-> exists, lost |-> {}]

\* Only -d asks whether its file exists.
HttpInit ==
  \E opt \in HttpOptions, exists \in BOOLEAN :
    (exists => opt.target = "existing") /\ http = HttpStart(opt, exists)

HttpAt(pc) == http.pc = pc

Named == http.opt.target \in {"existing", "file"}

\* run() returns early: what is open is closed.
SetupEnds == http' = [http EXCEPT !.pc = "done", !.files = {}, !.exit = 2]

\* fopen(name, mode), with what it means to the program.
Opens(file, pc) == http' = [http EXCEPT !.pc = pc, !.files = @ \cup {file}]

\* -d's file is not there, or the target cannot be opened for writing.
TargetFails == HttpAt("target") /\ Named /\ SetupEnds

OpenTarget ==
  /\ HttpAt("target")
  /\ IF Named
     THEN /\ http.opt.target = "existing" => http.exists
          /\ http' = [http EXCEPT !.pc = "headers", !.files = @ \cup {"output"},
                                  !.opened = TRUE]
     ELSE http' = [http EXCEPT !.pc = "headers"]

\* The file of -rHd cannot be opened.
HeadersFail == HttpAt("headers") /\ http.opt.headers = "file" /\ SetupEnds

OpenHeaders ==
  /\ HttpAt("headers")
  /\ IF http.opt.headers = "file" THEN Opens("headers", "upload")
     ELSE http' = [http EXCEPT !.pc = "upload"]

\* The list of request headers cannot be allocated, or the file of -U cannot be opened.
RequestFails == HttpAt("upload") /\ SetupEnds

OpenUpload ==
  /\ HttpAt("upload")
  /\ IF http.opt.upload # "none" THEN Opens("upload", "size")
     ELSE http' = [http EXCEPT !.pc = "perform"]

\* The size of the file of -U is not known.
SizeFails == HttpAt("size") /\ SetupEnds

SizeUpload == HttpAt("size") /\ http' = [http EXCEPT !.pc = "perform"]

-----------------------------------------------------------------------------
(* curl_easy_perform and its callbacks.                                    *)

\* curl_easy_perform returns.
Returns(h, result) == [h EXCEPT !.pc = "performed", !.result = result]

Performing == http.pc \in {"perform", "body"}

\* read_callback.  A file that is the target, too, was truncated when that was opened.
SendUpload ==
  /\ HttpAt("perform") /\ http.opt.upload # "none"
  /\ http' = [http EXCEPT !.sent = http.opt.upload = "other"]

\* header_callback for the lines of a response or of a trailer.  names: with -Dd, they give
\* a name of which safe_basename leaves something.
HeadersOf(h, names) ==
  [h EXCEPT !.disposed = Append(@, names),
            !.remote = IF names THEN Len(h.disposed) + 1 ELSE @]

Names == IF http.opt.target = "remote" THEN BOOLEAN ELSE {FALSE}

Response(names) == [HeadersOf(http, names) EXCEPT !.responses = @ + 1]

\* A response that is not the last: an interim one (100, 103), or a redirect followed
\* with -R.  A redirect ends the transfer after more than -mR hops, and while an upload
\* is under way, which cannot be rewound because there is no callback to seek with.
InterimResponse ==
  /\ HttpAt("perform") /\ http.responses < MaxHops
  /\ \E names \in Names : http' = Response(names)

Redirect ==
  /\ HttpAt("perform") /\ http.opt.follow
  /\ \E names \in Names :
       \/ ~http.sent /\ http.responses < MaxHops /\ http' = Response(names)
       \/ http' = Returns(Response(names), "error")

\* The response whose body is wanted.
FinalResponse ==
  /\ HttpAt("perform")
  /\ \E names \in Names, n \in 0 .. MaxChunks :
       http' = [Response(names) EXCEPT !.pc = "body", !.chunks = n]

\* The fields that follow a chunked body are headers, too.
Trailer ==
  /\ HttpAt("body") /\ http.written = http.chunks
  /\ Len(http.disposed) = http.responses
  /\ \E names \in Names : http' = HeadersOf(http, names)

\* header_callback cannot write to the file of -rHd or to the terminal: for libcurl that
\* is a transfer that failed, and so is what read_callback cannot read.
HeaderWriteFails ==
  /\ Performing /\ http.opt.headers # "none"
  /\ HttpAt("body") => http.written = http.chunks
  /\ \E names \in Names :
       LET h == HeadersOf(http, names) IN
       http' = Returns([h EXCEPT !.aborted = "headers",
                                 !.lost = IF h.opt.headers = "file" THEN @ \cup {"headers"}
                                          ELSE @], "error")

UploadReadFails ==
  /\ Performing /\ http.opt.upload # "none"
  /\ http' = Returns([http EXCEPT !.aborted = "upload"], "error")

\* The network or the server failed.
TransferFails == Performing /\ http' = Returns(http, "error")

\* -t is over; or no connection was made in the time of -T, or of libcurl's default: for
\* the first request, for a redirect, or in place of a connection the server had closed.
TransferTimesOut ==
  /\ Performing /\ (http.opt.timed \/ HttpAt("perform"))
  /\ http' = Returns(http, "timeout")

\* open_remote_output.
OpenRemote(h) ==
  IF h.opt.target = "remote" /\ ~h.opened
  THEN {[h EXCEPT !.opened = TRUE, !.name = h.remote, !.files = @ \cup {"output"}],
        [h EXCEPT !.outputError = TRUE]}
  ELSE {h}

\* The stream the body goes to.
Sink == IF http.opt.target = "stdout" THEN "stdout" ELSE "output"

WriteFails(h) == [h EXCEPT !.outputError = TRUE, !.aborted = "write"]

\* write_callback: a piece is taken by the stream, or not at all, or in part only.
WriteChunk ==
  /\ HttpAt("body") /\ http.written < http.chunks
  /\ \E h \in OpenRemote(http) :
       \/ h.outputError /\ http' = Returns(WriteFails(h), "error")
       \/ ~h.outputError /\ http' = [h EXCEPT !.written = @ + 1]
       \/ /\ ~h.outputError
          /\ http' = Returns([WriteFails(h) EXCEPT !.lost = @ \cup {Sink}], "error")

BodyEnds ==
  /\ HttpAt("body") /\ http.written = http.chunks
  /\ http' = Returns(http, "ok")

-----------------------------------------------------------------------------
(* run()'s end.                                                            *)

\* An empty body still makes the file of -Dd.
OpenEmpty ==
  /\ HttpAt("performed")
  /\ \E h \in IF http.result = "ok" THEN OpenRemote(http) ELSE {http} :
       http' = [h EXCEPT !.pc = "flush"]

HttpStatus(h) ==
  IF h.outputError THEN 2
  ELSE IF h.result = "timeout" THEN 28
  ELSE IF h.result = "error" THEN 3
  ELSE 0

\* The streams that may hold bytes which are not on the disk yet.
Buffered ==
  (IF http.written > 0 THEN {Sink} ELSE {})
    \cup (IF "headers" \in http.files /\ http.disposed # <<>> THEN {"headers"} ELSE {})

\* The program is over; seen: it has noticed that bytes of the body were lost.
Closes(full, seen) ==
  LET h == [http EXCEPT !.outputError = @ \/ seen, !.lost = @ \cup full] IN
  http' = [h EXCEPT !.pc = "done", !.files = {}, !.exit = HttpStatus(h)]

\* Mutant: the result of the last flush is not looked at.
FlushUnchecked == HttpAt("flush") /\ \E full \in SUBSET Buffered : Closes(full, FALSE)

\* The buffers are written out, which a full disk may prevent, and everything is closed.
\* Only the file of the body is looked at: nobody asks what became of the headers' file,
\* and standard output is written out by exit().
Flush == HttpAt("flush") /\ \E full \in SUBSET Buffered : Closes(full, "output" \in full)

\* The program's own steps, and libcurl's.
HttpRun ==
  \/ TargetFails \/ OpenTarget \/ HeadersFail \/ OpenHeaders
  \/ RequestFails \/ OpenUpload \/ SizeFails \/ SizeUpload
  \/ OpenEmpty \/ Flush

HttpTransfer ==
  \/ SendUpload \/ InterimResponse \/ Redirect \/ FinalResponse \/ WriteChunk
  \/ Trailer \/ BodyEnds
  \/ HeaderWriteFails \/ UploadReadFails \/ TransferFails \/ TransferTimesOut

HttpStep == HttpRun \/ HttpTransfer

-----------------------------------------------------------------------------
(* Properties.                                                             *)

\* The n-th of the first k headers is the last of them that gave a name; 0: none did.
LastNamed(n, k) ==
  /\ n \in 0 .. k
  /\ n > 0 => http.disposed[n]
  /\ \A i \in n + 1 .. k : ~http.disposed[i]

\* Status 0 means that the stream has taken the whole body of the last response and that
\* the file it goes to, if it goes to one, exists and has lost none of it (standard output
\* and the headers' file may have: neither is looked at).  A timeout is reported of a
\* transfer no callback has ended, and without -t only before the body has begun; neither
\* a timeout nor a broken transfer is reported when the body's own file is at fault.  The
\* file of -Dd has the name given last before it was made, by whichever response: a
\* trailer's counts for an empty body only.  No file stays open.
HttpDelivers ==
  /\ http.exit = 0 =>
       /\ http.written = http.chunks /\ http.aborted = "none" /\ "output" \notin http.lost
       /\ http.opt.target # "stdout" => http.opened
  /\ http.exit = 28 => http.aborted = "none" /\ (http.written > 0 => http.opt.timed)
  /\ http.exit \in {3, 28} => http.aborted # "write" /\ "output" \notin http.lost
  /\ http.name # -1 =>
       LastNamed(http.name,
                 IF http.chunks = 0 THEN Len(http.disposed) ELSE http.responses)
  /\ http.pc = "done" => http.files = {}
=============================================================================
