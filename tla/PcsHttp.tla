------------------------------- MODULE PcsHttp -------------------------------
(***************************************************************************)
(* One HTTP handle of the PCS library (pcs/pcs_http.c): requests one after *)
(* the other on one curl handle, whose options outlive a request, and the  *)
(* write callback that parts the bytes of an answer, header lines and      *)
(* blocks of the body alike, into what is parsed and what is handed on.    *)
(* libcurl calls it once for each header line and once for each block.     *)
(***************************************************************************)
EXTENDS PcsUrl, Sequences

CONSTANTS
    Size,       \* blocks of the resource at the address
    MaxHops,    \* answers of a request before the last: 100 and followed 302
    Like,       \* blocks that begin like a status line of HTTP/1
    Faults      \* "bare": a field names Content-Length as a word among others;
                \* "http2": status lines of HTTP/2; "whole": the server sends
                \* everything whatever the range; "close": an answer without
                \* length may be cut; "nocookie": the named cookie is missing

ASSUME SizeAssumption   == Size \in Nat \ {0}
ASSUME HopsAssumption   == MaxHops \in Nat
ASSUME LikeAssumption   == Like \subseteq 0 .. Size - 1
ASSUME FaultsAssumption == Faults \subseteq {"bare", "http2", "whole", "close", "nocookie"}

VARIABLES
    http,   \* struct pcs_http: type and state of the parsing, what it found,
            \* the body it keeps, strerror, and whether a write function is set
    opt,    \* CURLOPT_RANGE and CURLOPT_RESUME_FROM_LARGE
    req,    \* the request in progress, or the last one
    wire,   \* what libcurl is about to deliver
    given,  \* what the write function got: blocks, and lengths it was told
    pc,     \* "none" without a handle; "idle"; "transfer", then "done" or
            \* "failed"; "stuck" in the search of a header
    ans     \* what the last call returned

hvars == <<http, opt, req, wire, given, pc, ans>>
vars  == <<hvars, url>>

NONE == -1      \* no Content-Length seen
BARE == -2      \* it is named, but not as a field

NORMAL == 0     \* PCS_HTTP_RES_TYPE_*; one more while in the body
RAW == 4
DOWNLOAD == 6

Run(first, last) == [i \in 1 .. last - first + 1 |-> first + i - 1]
Whole == Run(0, Size - 1)
Page  == <<Size>>           \* the body of an error, or of a redirection

Struct == [res_type |-> NORMAL, res_code |-> 0, named |-> NONE,
           res_content_length |-> 0, res_body |-> <<>>, strerror |-> "none",
           write_func |-> 0]
NoReq  == [op |-> "none", follow |-> 0, from |-> 0, len |-> 0]
NoWire == [hop |-> 0, at |-> "status", code |-> 0, left |-> <<>>, len |-> NONE, lines |-> 0]
NoOpt  == [range |-> <<>>, resume |-> 0]
Nothing == [blocks |-> <<>>, told |-> {}]

Init ==
    /\ UrlInit
    /\ http = Struct /\ opt = NoOpt /\ req = NoReq /\ wire = NoWire
    /\ given = Nothing /\ pc = "none" /\ ans = "none"

-----------------------------------------------------------------------------
pcs_http_create ==
    /\ pc = "none" /\ pc' = "idle"
    /\ http' = Struct /\ opt' = NoOpt /\ ans' = "none"
    /\ UNCHANGED <<req, wire, given>>

pcs_http_destroy ==
    /\ pc = "idle" /\ pc' = "none"
    /\ http' = Struct /\ opt' = NoOpt /\ ans' = "none"
    /\ req' = NoReq /\ wire' = NoWire /\ given' = Nothing

\* The write function; the other options change nothing that is modelled.
pcs_http_setopt ==
    /\ pc = "idle"
    /\ http' = [http EXCEPT !.write_func = 1]
    /\ UNCHANGED <<opt, req, wire, given, pc, ans>>

\* The value of the cookie of this name, among the cookies of the handle:
\* without it, what was the value of the last one, freed, is returned.
pcs_http_get_cookie ==
    /\ pc = "idle"
    /\ \E jar \in {{}, {"BDUSS"}} \union
                  (IF "nocookie" \in Faults THEN {{"PTOKEN"}} ELSE {}) :
          ans' = IF "BDUSS" \in jar THEN "cookie" ELSE IF jar = {} THEN "null" ELSE "freed"
    /\ req' = [NoReq EXCEPT !.op = "cookie"]
    /\ wire' = NoWire /\ given' = Nothing
    /\ UNCHANGED <<http, opt, pc>>

\* Mutants of Reset: the message, or the type, of the request before stays.
ResetKeepsMessage == [Struct EXCEPT !.write_func = http.write_func, !.strerror = http.strerror]
ResetKeepsType == [Struct EXCEPT !.write_func = http.write_func, !.res_type = http.res_type]

\* pcs_http_reset_response
Reset == [Struct EXCEPT !.write_func = http.write_func]

\* Mutant of RangeAsked: as it was before 2017, when a range from 0 was none.
RangeAskedOld(from, len) == from # 0 /\ len # 0

\* The condition on which pcs_http_prepare sets CURLOPT_RANGE
RangeAsked(from, len) == from >= 0 /\ len # 0

\* Either option stays set when the other one is.
pcs_http_prepare(op, type, follow, from, len) ==
    /\ pc = "idle" /\ pc' = "transfer"
    /\ http' = IF type = NORMAL THEN Reset ELSE [Reset EXCEPT !.res_type = type]
    /\ opt' = IF RangeAsked(from, len) THEN [opt EXCEPT !.range = <<from, from + len - 1>>]
              ELSE [opt EXCEPT !.resume = from]
    /\ req' = [op |-> op, follow |-> follow, from |-> from, len |-> len]
    /\ wire' = NoWire /\ given' = Nothing /\ ans' = "none"

pcs_http_get(follow)       == pcs_http_prepare("get", NORMAL, follow, 0, 0)
pcs_http_get_raw           == pcs_http_prepare("raw", RAW, 1, 0, 0)
pcs_http_post              == pcs_http_prepare("post", NORMAL, 1, 0, 0)
pcs_post_httpform          == pcs_http_prepare("form", NORMAL, 1, 0, 0)
\* CURLOPT_NOBODY; the requests above and below clear it.
get_download_filesize      == pcs_http_prepare("size", NORMAL, 1, 0, 0)
pcs_http_get_download(from, len) == pcs_http_prepare("download", DOWNLOAD, 1, from, len)

\* The PCS library downloads ranges on handles that do nothing else, one each
\* (thread_down_task); pcs_cat downloads without a range.
Request ==
    \/ /\ opt = NoOpt
       /\ \/ \E follow \in 0 .. 1 : pcs_http_get(follow)
          \/ pcs_http_get_raw
          \/ pcs_http_post
          \/ pcs_post_httpform
          \/ get_download_filesize
          \/ pcs_http_get_download(0, 0)
    \/ /\ opt = NoOpt /\ req.op \in {"none", "cookie"}
       /\ \E from \in 0 .. Size - 1, len \in 0 .. Size :
             from + len <= Size /\ pcs_http_get_download(from, len)

-----------------------------------------------------------------------------
(***************************************************************************)
(* pcs_http_write, the write callback, on one chunk.                       *)
(***************************************************************************)
Chunk(kind, value) == [kind |-> kind, value |-> value]

\* Mutant of LooksLikeStatus: the version of the later answers is not looked at.
NeverAgain(c) == FALSE

\* pcs_http_is_http_redirect_head
LooksLikeStatus(c) ==
    \/ c.kind = "status" /\ "http2" \notin Faults
    \/ c.kind = "block" /\ c.value \in Like

InBody == http.res_type % 2 = 1
Again(c) == InBody /\ LooksLikeStatus(c)
InHead(c) == ~InBody \/ Again(c)

\* The header so far, when an answer after the first one begins anew.
Fresh(c) == IF Again(c) THEN [http EXCEPT !.res_type = @ - 1, !.named = NONE] ELSE http

\* A chunk of the head: the first Content-Length that is named counts.
\* pcs_http_get_content_length_from_header, at the blank line, does not move
\* on from a name that no colon follows.
HeadChunk(c) ==
    /\ InHead(c)
    /\ http' = CASE c.kind = "length" /\ Fresh(c).named = NONE -> [Fresh(c) EXCEPT !.named = c.value]
                 [] c.kind = "blank" -> [Fresh(c) EXCEPT !.res_type = @ + 1,
                                                         !.res_content_length = Fresh(c).named]
                 [] OTHER            -> Fresh(c)
    /\ pc' = IF c.kind = "blank" /\ Fresh(c).named = BARE THEN "stuck" ELSE pc
    /\ UNCHANGED given

\* A chunk of the body that is kept for the caller
BodyChunk(c) ==
    /\ ~InHead(c) /\ http.res_type # DOWNLOAD + 1
    /\ http' = [http EXCEPT !.res_body = Append(@, c.value)]
    /\ UNCHANGED <<given, pc>>

\* A chunk that the write function takes, or refuses, which ends the transfer
GivenChunk(c) ==
    /\ ~InHead(c) /\ http.res_type = DOWNLOAD + 1 /\ http.write_func = 1
    /\ \/ /\ given' = [blocks |-> Append(given.blocks, c.value),
                       told   |-> given.told \union {http.res_content_length}]
          /\ UNCHANGED <<http, pc>>
       \/ pc' = "failed" /\ UNCHANGED <<http, given>>

NoFunction(c) ==
    /\ ~InHead(c) /\ http.res_type = DOWNLOAD + 1 /\ http.write_func = 0
    /\ http' = [http EXCEPT !.strerror = "nofunction"]
    /\ pc' = "failed" /\ UNCHANGED given

\* pcs_http_null_write takes everything.
pcs_http_write(c) ==
    IF req.op = "size" THEN UNCHANGED <<http, given, pc>>
    ELSE HeadChunk(c) \/ BodyChunk(c) \/ GivenChunk(c) \/ NoFunction(c)

-----------------------------------------------------------------------------
(***************************************************************************)
(* libcurl and the server.                                                 *)
(***************************************************************************)
\* The resume position, if there is one, replaces the range.
Served ==
    IF "whole" \in Faults THEN Whole
    ELSE IF opt.resume # 0 THEN Run(opt.resume, Size - 1)
    ELSE IF opt.range # <<>> THEN Run(opt.range[1], opt.range[2]) ELSE Whole

Interim(code) == code = 100 \/ (code = 302 /\ req.follow = 1)

Answer ==
    {IF Served = Whole THEN 200 ELSE 206, 404}
    \union (IF req.follow = 0 \/ wire.hop < MaxHops THEN {302} ELSE {})
    \union (IF req.op = "form" /\ wire.hop < MaxHops THEN {100} ELSE {})

StatusLine ==
    /\ pc = "transfer" /\ wire.at = "status"
    /\ \E code \in Answer :
          \E left \in IF code \in {200, 206} THEN {Served, <<>>}
                      ELSE IF Interim(code) THEN {<<>>} ELSE {<<>>, Page} :
             wire' = [wire EXCEPT !.at = "head", !.code = code, !.left = left,
                                  !.len = NONE, !.lines = 0]
    /\ pcs_http_write(Chunk("status", 0))
    /\ UNCHANGED <<opt, req, ans>>

FieldLine ==
    /\ pc = "transfer" /\ wire.at = "head" /\ wire.lines < 2
    /\ \E v \in (IF wire.len = NONE THEN {Len(wire.left)} ELSE {})
                \union (IF "bare" \in Faults THEN {BARE} ELSE {}) :
          /\ wire' = [wire EXCEPT !.len = IF v = BARE THEN @ ELSE v, !.lines = @ + 1]
          /\ pcs_http_write(Chunk("length", v))
    /\ UNCHANGED <<opt, req, ans>>

\* The body of an answer that another one follows is not delivered.
BlankLine ==
    /\ pc = "transfer" /\ wire.at = "head"
    /\ wire' = [wire EXCEPT !.at = IF Interim(wire.code) THEN "status" ELSE "body",
                            !.hop = IF Interim(wire.code) THEN @ + 1 ELSE @,
                            !.left = IF req.op = "size" THEN <<>> ELSE @]
    /\ pcs_http_write(Chunk("blank", 0))
    /\ UNCHANGED <<opt, req, ans>>

Block ==
    /\ pc = "transfer" /\ wire.at = "body" /\ wire.left # <<>>
    /\ wire' = [wire EXCEPT !.left = Tail(@)]
    /\ pcs_http_write(Chunk("block", Head(wire.left)))
    /\ UNCHANGED <<opt, req, ans>>

\* The transfer ends well: all is there, or its end cannot be told.
Finish ==
    /\ pc = "transfer" /\ wire.at = "body"
    /\ wire.left # <<>> => "close" \in Faults /\ wire.len = NONE
    /\ pc' = "done"
    /\ UNCHANGED <<http, opt, req, wire, given, ans>>

\* It fails: no connection, a broken one, the speed limit.
Break ==
    /\ pc = "transfer" /\ pc' = "failed"
    /\ UNCHANGED <<http, opt, req, wire, given, ans>>

-----------------------------------------------------------------------------
Said(h) == [h EXCEPT !.res_code = wire.code]
Explain(h, why) == IF h.strerror = "none" THEN [h EXCEPT !.strerror = why] ELSE h

\* What the call makes of the end of pcs_http_perform
Result(h, answer) ==
    CASE req.op = "download" -> IF h.strerror = "none" THEN "true" ELSE "false"
      [] OTHER               -> answer

pcs_http_perform ==
    /\ pc \in {"done", "failed"} /\ req.op # "size" /\ pc' = "idle"
    /\ LET good == wire.code \in {200, 206}
           h == IF pc = "failed" THEN Explain(Said(http), "curl")
                ELSE IF ~good THEN [Said(http) EXCEPT !.strerror = "code"] ELSE Said(http)
           answer == IF pc = "done" /\ good /\ h.res_body # <<>> THEN "value" ELSE "null"
       IN  http' = h /\ ans' = Result(h, answer)
    /\ UNCHANGED <<opt, req, wire, given>>

\* The end of pcs_http_get_download_filesize, which takes any code
DownloadFilesize ==
    /\ pc \in {"done", "failed"} /\ req.op = "size" /\ pc' = "idle"
    /\ http' = IF pc = "failed" THEN Explain(http, "curl") ELSE http
    /\ ans' = IF pc = "done" THEN "value" ELSE "null"
    /\ UNCHANGED <<opt, req, wire, given>>

Transfer ==
    \/ StatusLine \/ FieldLine \/ BlankLine \/ Block \/ Finish \/ Break
    \/ pcs_http_perform \/ DownloadFilesize

HttpNext ==
    \/ pcs_http_create \/ pcs_http_destroy \/ pcs_http_setopt \/ pcs_http_get_cookie
    \/ Request \/ Transfer

\* Addresses and bodies are made between requests.
Next ==
    \/ HttpNext /\ url.at = "none" /\ UNCHANGED url
    \/ pc = "idle" /\ req = NoReq /\ UrlNext /\ UNCHANGED hvars

Spec == Init /\ [][Next]_vars

-----------------------------------------------------------------------------
TypeOK ==
    /\ http.res_type \in 0 .. 7
    /\ pc = "transfer" /\ req.op \notin {"raw", "download"} => http.res_type \in {NORMAL, NORMAL + 1}
    /\ http.res_code \in {0, 100, 200, 206, 302, 404}
    /\ http.named \in {NONE, BARE} \union 0 .. Size
    /\ http.res_content_length \in {NONE, BARE} \union 0 .. Size
    /\ http.res_body \in Seq(BARE .. Size) /\ http.write_func \in 0 .. 1
    /\ http.strerror \in {"none", "curl", "code", "nofunction"}
    /\ wire.at \in {"status", "head", "body"} /\ wire.hop \in 0 .. MaxHops
    /\ given.blocks \in Seq(BARE .. Size)
    /\ pc \in {"none", "idle", "transfer", "done", "failed", "stuck"}
    /\ ans \in {"none", "null", "value", "true", "false", "cookie", "freed"}
    /\ url.ampersand \in 0 .. 1 /\ url.left \in 0 .. MaxParams

\* What the request asked for
Wanted == IF req.len # 0 THEN Run(req.from, req.from + req.len - 1) ELSE Run(req.from, Size - 1)

\* A call that succeeds has got exactly what was asked for, once and in
\* order, whatever answers came before the last: none of their header lines or
\* bodies, nothing of an earlier request; and the write function was told the
\* length of this very answer, or that there is none.
AnswerWhole ==
    pc = "idle" =>
        /\ req.op # "size" /\ ans = "value" => http.res_body = Wanted
        /\ ans = "true" => /\ given.blocks \in {Wanted, <<>>}
                           /\ given.told \subseteq {NONE, Len(given.blocks)}

\* A call that fails leaves its message and no other; one that succeeds
\* leaves none; NULL without a message is an answer without a body; and what
\* a caller gets, a cookie too, is not freed memory (pcs_http.h:139).
Explained ==
    pc = "idle" =>
        /\ ans # "freed"
        /\ ans = "false" => http.strerror # "none"
        /\ ans \in {"value", "true"} /\ req.op # "cookie" => http.strerror = "none"
        /\ ans = "null" /\ req.op \notin {"none", "cookie"} /\ http.strerror = "none" =>
              wire.code \in {200, 206} /\ http.res_body = <<>>

=============================================================================
