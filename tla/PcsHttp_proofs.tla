--------------------------- MODULE PcsHttp_proofs ---------------------------
(***************************************************************************)
(* Theorems about the HTTP handle of the PCS library, for resources of any *)
(* size and any number of answers before the last, and about the strings   *)
(* that the library sizes by hand, for names, values and buffers of any    *)
(* length.                                                                 *)
(***************************************************************************)
EXTENDS PcsHttp, SequenceTheorems, TLAPS

\* The string in the making
UrlType ==
    url \in [at : {"none", "url", "post", "format", "text"}, len : Nat, alloc : Nat \ {0},
             ressz : Nat, ampersand : 0 .. 1, left : 0 .. MaxParams]

\* A text that is yet to be printed has no length.
Empty == url.at \in {"none", "format"} => url.len = 0

IInv == UrlType /\ Empty /\ RessizeExact /\ BufferFits

USE MaxLenAssumption, MaxParamsAssumption, BufferAssumption

LEMMA InitIInv == UrlInit => IInv
BY SMT DEF UrlInit, NoUrl, String, IInv, UrlType, Empty, RessizeExact, BufferFits

\* Each step of PcsUrl keeps the buffer large enough.
LEMMA StepIInv == IInv /\ UrlNext => IInv'
<1> SUFFICES ASSUME IInv, UrlNext PROVE IInv'
    OBVIOUS
<1> USE DEF IInv, UrlType, Empty, RessizeExact, BufferFits, String
<1>1. CASE BuildUrl
    <2>1. PICK form \in Form, base \in 0 .. MaxLen :
             url' = String("url", IF form = "plain" THEN base + 1 ELSE base, base + 2,
                           IF form = "plain" THEN base + 1 ELSE base,
                           IF form = "open" THEN 1 ELSE 0, MaxParams)
        BY <1>1 DEF BuildUrl
    <2> QED BY <2>1, SMT
<1>2. CASE AppendParam
    <2>1. PICK name \in 1 .. MaxLen, val \in NULL .. MaxLen :
             url' = String("url",
                           url.len + url.ampersand + name + (IF val = NULL THEN 0 ELSE val + 1),
                           Grown(name, val) + 1,
                           IF url.ampersand = 1 THEN Grown(name, val) ELSE Grown(name, val) - 1,
                           1, url.left - 1)
        BY <1>2 DEF AppendParam
    <2>2. url.at = "url"
        BY <1>2 DEF AppendParam
    <2>3. url.left - 1 \in 0 .. MaxParams
        BY <1>2 DEF AppendParam
    <2>4. CASE val = NULL
        BY <2>1, <2>2, <2>3, <2>4, SMT DEF Grown, NULL
    <2>5. CASE val # NULL
        BY <2>1, <2>2, <2>3, <2>5, SMT DEF Grown, NULL
    <2> QED BY <2>4, <2>5
<1>3. CASE BuildPostData
    <2>1. PICK name \in 1 .. MaxLen, val \in NULL .. MaxLen :
             url' = String("post", name + ValueLen(val) + 1, name + ValueLen(val) + 1 + 1,
                           name + ValueLen(val) + 1, 0, MaxParams)
        BY <1>3 DEF BuildPostData
    <2>2. ValueLen(val) \in Nat
        BY SMT DEF ValueLen, NULL
    <2> QED BY <2>1, <2>2, SMT
<1>4. CASE AppendPostData
    <2>1. PICK name \in 1 .. MaxLen, val \in NULL .. MaxLen :
             url' = String("post", url.len + (name + ValueLen(val) + 2),
                           url.ressz + (name + ValueLen(val) + 2) + 1,
                           url.ressz + (name + ValueLen(val) + 2), 0, url.left - 1)
        BY <1>4 DEF AppendPostData
    <2>2. ValueLen(val) \in Nat
        BY SMT DEF ValueLen, NULL
    <2>3. url.at = "post" /\ url.left - 1 \in 0 .. MaxParams
        BY <1>4 DEF AppendPostData
    <2> QED BY <2>1, <2>2, <2>3, SMT
<1>5. CASE Format
    <2>1. PICK n \in 0 .. MaxLen : url' = String("format", 0, Buffer, n, 0, 0)
        BY <1>5 DEF Format
    <2> QED BY <2>1, SMT
<1>6. CASE TryPrint
    BY <1>6, SMT DEF TryPrint
<1>7. CASE UrlDone
    BY <1>7, SMT DEF UrlDone, NoUrl
<1> QED BY <1>1, <1>2, <1>3, <1>4, <1>5, <1>6, <1>7 DEF UrlNext

\* The parts of the invariant hold in every state, for every length of the
\* strings, number of parameters and first size of a buffer.
THEOREM StringsInvariant == Spec => []IInv
<1>1. Init => IInv
    BY InitIInv DEF Init
<1>2. IInv /\ [Next]_vars => IInv'
    <2> SUFFICES ASSUME IInv, [Next]_vars PROVE IInv'
        OBVIOUS
    <2>1. CASE UrlNext
        BY <2>1, StepIInv
    <2>2. CASE UNCHANGED url
        BY <2>2 DEF IInv, UrlType, Empty, RessizeExact, BufferFits
    <2> QED BY <2>1, <2>2 DEF Next, vars
<1> QED BY <1>1, <1>2, PTL DEF Spec

\* Addresses and bodies put together by pcs_http_build_url and
\* pcs_http_build_post_data stay in their buffers, and a formatted text passes
\* its own by at most the byte that ends it.
THEOREM StringsFit == Spec => []BufferFits
<1>1. IInv => BufferFits
    BY DEF IInv
<1> QED BY <1>1, StringsInvariant, PTL

\* The size the loops keep by hand is the length of the string.
THEOREM SizesExact == Spec => []RessizeExact
<1>1. IInv => RessizeExact
    BY DEF IInv
<1> QED BY <1>1, StringsInvariant, PTL

-----------------------------------------------------------------------------
(***************************************************************************)
(* Runs of blocks.                                                         *)
(***************************************************************************)
USE SizeAssumption, HopsAssumption, LikeAssumption, FaultsAssumption

LEMMA RunType ==
    ASSUME NEW a \in Nat, NEW b \in -1 .. Size - 1, a <= b + 1
    PROVE  /\ Run(a, b) \in Seq(0 .. Size)
           /\ Len(Run(a, b)) = b - a + 1
           /\ \A i \in 1 .. b - a + 1 : Run(a, b)[i] = a + i - 1
<1> DEFINE n == b - a + 1
<1>1. n \in Nat
    OBVIOUS
<1>2. Run(a, b) = [i \in 1 .. n |-> a + i - 1]
    BY DEF Run
<1>3. \A i \in 1 .. n : a + i - 1 \in 0 .. Size
    OBVIOUS
<1>4. [i \in 1 .. n |-> a + i - 1] \in [1 .. n -> 0 .. Size]
    BY <1>3
<1> HIDE DEF n
<1>5. Run(a, b) \in Seq(0 .. Size) /\ Len(Run(a, b)) = n
    BY <1>1, <1>2, <1>4
<1> QED BY <1>2, <1>5 DEF n

LEMMA RunEmpty ==
    ASSUME NEW a \in Nat
    PROVE  Run(a, a - 1) = <<>>
BY DEF Run

\* The first block of a run is delivered, the rest is left.
LEMMA RunHead ==
    ASSUME NEW a \in Nat, NEW b \in -1 .. Size - 1, a <= b
    PROVE  /\ Run(a, b) # <<>>
           /\ Head(Run(a, b)) = a
           /\ Tail(Run(a, b)) = Run(a + 1, b)
<1>1. /\ Run(a, b) \in Seq(0 .. Size) /\ Len(Run(a, b)) = b - a + 1
      /\ \A i \in 1 .. b - a + 1 : Run(a, b)[i] = a + i - 1
    BY RunType
<1>2. /\ Run(a + 1, b) \in Seq(0 .. Size) /\ Len(Run(a + 1, b)) = b - a
      /\ \A i \in 1 .. b - a : Run(a + 1, b)[i] = a + i
    <2>1. /\ Run(a + 1, b) \in Seq(0 .. Size)
          /\ Len(Run(a + 1, b)) = b - (a + 1) + 1
          /\ \A i \in 1 .. b - (a + 1) + 1 : Run(a + 1, b)[i] = (a + 1) + i - 1
        <3>1. a + 1 \in Nat /\ a + 1 <= b + 1
            OBVIOUS
        <3> QED BY <3>1, RunType
    <2>2. b - (a + 1) + 1 = b - a
        OBVIOUS
    <2> QED BY <2>1, <2>2
<1>3. Run(a, b) # <<>>
    BY <1>1, EmptySeq
<1>4. Head(Run(a, b)) = a
    BY <1>1, <1>3
<1>5. /\ Tail(Run(a, b)) \in Seq(0 .. Size) /\ Len(Tail(Run(a, b))) = b - a
      /\ \A i \in 1 .. b - a : Tail(Run(a, b))[i] = a + i
    BY <1>1, <1>3, HeadTailProperties
<1>6. \A i \in 1 .. b - a : Tail(Run(a, b))[i] = Run(a + 1, b)[i]
    BY <1>2, <1>5
<1>7. Tail(Run(a, b)) = Run(a + 1, b)
    BY <1>2, <1>5, <1>6, SeqEqual
<1> QED BY <1>3, <1>4, <1>7

\* A run grows by its next block.
LEMMA RunAppend ==
    ASSUME NEW a \in Nat, NEW b \in -1 .. Size - 1, a <= b
    PROVE  Append(Run(a, b - 1), b) = Run(a, b)
<1>1. /\ Run(a, b) \in Seq(0 .. Size) /\ Len(Run(a, b)) = b - a + 1
      /\ \A i \in 1 .. b - a + 1 : Run(a, b)[i] = a + i - 1
    BY RunType
<1>2. /\ Run(a, b - 1) \in Seq(0 .. Size) /\ Len(Run(a, b - 1)) = b - a
      /\ \A i \in 1 .. b - a : Run(a, b - 1)[i] = a + i - 1
    <2>1. b - 1 \in -1 .. Size - 1 /\ a <= (b - 1) + 1 /\ (b - 1) - a + 1 = b - a
        OBVIOUS
    <2>2. /\ Run(a, b - 1) \in Seq(0 .. Size)
          /\ Len(Run(a, b - 1)) = (b - 1) - a + 1
          /\ \A i \in 1 .. (b - 1) - a + 1 : Run(a, b - 1)[i] = a + i - 1
        BY <2>1, RunType
    <2> QED BY <2>1, <2>2
<1>3. /\ Append(Run(a, b - 1), b) \in Seq(0 .. Size)
      /\ Len(Append(Run(a, b - 1), b)) = b - a + 1
      /\ \A i \in 1 .. b - a : Append(Run(a, b - 1), b)[i] = a + i - 1
      /\ Append(Run(a, b - 1), b)[b - a + 1] = b
    BY <1>2, AppendProperties
<1>4. \A i \in 1 .. b - a + 1 : Append(Run(a, b - 1), b)[i] = Run(a, b)[i]
    BY <1>1, <1>3
<1> QED BY <1>1, <1>3, <1>4, SeqEqual

-----------------------------------------------------------------------------
(***************************************************************************)
(* The handle: types, and what a request in progress keeps.                *)
(***************************************************************************)
Code    == {0, 100, 200, 206, 302, 404}
Length  == BARE .. Size
Message == {"none", "curl", "code", "nofunction"}
Kind    == {"none", "cookie", "get", "raw", "post", "form", "size", "download"}
Place   == {"status", "head", "body"}

Structs == [res_type : 0 .. 7, res_code : Code, named : Length, res_content_length : Length,
            res_body : Seq(Length), strerror : Message, write_func : 0 .. 1]
Reqs    == [op : Kind, follow : 0 .. 1, from : 0 .. Size - 1, len : 0 .. Size]
Wires   == [hop : 0 .. MaxHops, at : Place, code : Code, left : Seq(0 .. Size),
            len : Length, lines : 0 .. 2]
Givens  == [blocks : Seq(Length), told : SUBSET Length]

HandleType ==
    /\ http \in Structs /\ req \in Reqs /\ wire \in Wires /\ given \in Givens
    /\ pc \in {"none", "idle", "transfer", "done", "failed", "stuck"}
    /\ ans \in {"none", "null", "value", "true", "false", "cookie", "freed"}

Running == pc \in {"transfer", "done", "failed", "stuck"}

\* The type of the handle with its state "head"; one more is "body".
Base == CASE req.op = "download" -> DOWNLOAD [] req.op = "raw" -> RAW [] OTHER -> NORMAL

ParseInv == Running => http.res_type \in {Base, Base + 1}

\* The options of curl are those of the request.
OptInv ==
    /\ req.from + req.len <= Size
    /\ Running => opt = IF req.len # 0
                        THEN [range |-> <<req.from, req.from + req.len - 1>>, resume |-> 0]
                        ELSE [range |-> <<>>, resume |-> req.from]

\* An answer that another one follows is not the last that is allowed.
HopInv ==
    /\ wire.at = "head" /\ Interim(wire.code) => wire.hop < MaxHops
    /\ Len(wire.left) <= Size

\* Only what ends a transfer leaves a message.
QuietInv == pc \in {"transfer", "done"} => http.strerror = "none"

HandleInv == HandleType /\ ParseInv /\ OptInv /\ HopInv /\ QuietInv

\* The struct and what is on the wire, field by field
LEMMA StructFields ==
    ASSUME NEW h \in Structs
    PROVE  h = [res_type |-> h.res_type, res_code |-> h.res_code, named |-> h.named,
                res_content_length |-> h.res_content_length, res_body |-> h.res_body,
                strerror |-> h.strerror, write_func |-> h.write_func]
BY DEF Structs

LEMMA InitHandleInv == Init => HandleInv
<1> SUFFICES ASSUME Init PROVE HandleInv
    OBVIOUS
<1>1. <<>> \in Seq(Length) /\ <<>> \in Seq(0 .. Size) /\ Len(<<>>) = 0
    BY EmptySeq
<1>2. http \in Structs
    BY <1>1 DEF Init, Struct, Structs, NORMAL, NONE, BARE, Code, Length, Message
<1>3. req \in Reqs
    BY DEF Init, NoReq, Reqs, Kind
<1>4. wire \in Wires
    BY <1>1 DEF Init, NoWire, Wires, NONE, BARE, Place, Code, Length
<1>5. given \in Givens
    BY <1>1 DEF Init, Nothing, Givens
<1>6. OptInv /\ HopInv
    BY <1>1 DEF Init, OptInv, HopInv, NoReq, NoWire, Running
<1> QED BY <1>2, <1>3, <1>4, <1>5, <1>6 DEF HandleInv, HandleType, ParseInv, QuietInv, Running, Init

\* Who begins a new answer, and what is known of it then
Type0(c)  == IF Again(c) THEN http.res_type - 1 ELSE http.res_type
Named0(c) == IF Again(c) THEN NONE ELSE http.named

LEMMA BodyType ==
    ASSUME http \in Structs
    PROVE  InBody <=> http.res_type \in {1, 3, 5, 7}
<1>1. http.res_type \in 0 .. 7
    BY DEF Structs
<1> QED BY <1>1 DEF InBody

LEMMA FreshFields ==
    ASSUME HandleType, NEW c
    PROVE  /\ Fresh(c) \in Structs
           /\ Fresh(c) = [res_type |-> Type0(c), res_code |-> http.res_code, named |-> Named0(c),
                          res_content_length |-> http.res_content_length,
                          res_body |-> http.res_body, strerror |-> http.strerror,
                          write_func |-> http.write_func]
           /\ Type0(c) \in {0, 2, 4, 6} \/ ~ InHead(c)
<1>1. http \in Structs
    BY DEF HandleType
<1>2. CASE Again(c)
    <2>1. http.res_type \in {1, 3, 5, 7}
        BY <1>1, <1>2, BodyType DEF Again
    <2>2. Fresh(c) = [res_type |-> Type0(c), res_code |-> http.res_code, named |-> Named0(c),
                      res_content_length |-> http.res_content_length,
                      res_body |-> http.res_body, strerror |-> http.strerror,
                      write_func |-> http.write_func]
        BY <1>1, <1>2 DEF Fresh, Type0, Named0, Structs
    <2>3. Type0(c) \in {0, 2, 4, 6} /\ Named0(c) \in Length
        BY <1>2, <2>1 DEF Type0, Named0, Length, NONE, BARE
    <2> HIDE DEF Fresh, Type0, Named0
    <2>4. Fresh(c) \in Structs
        BY <1>1, <2>2, <2>3 DEF Structs
    <2> QED BY <2>2, <2>3, <2>4
<1>3. CASE ~ Again(c)
    <2>1. Fresh(c) = http /\ Type0(c) = http.res_type /\ Named0(c) = http.named
        BY <1>3 DEF Fresh, Type0, Named0
    <2>2. InHead(c) => http.res_type \in {0, 2, 4, 6}
        <3>1. http.res_type \in 0 .. 7
            BY <1>1 DEF Structs
        <3> QED BY <1>1, <1>3, <3>1, BodyType DEF InHead
    <2> QED BY <1>1, <2>1, <2>2, StructFields
<1> QED BY <1>2, <1>3

\* What a chunk of the head leaves in the struct
LEMMA HeadFields ==
    ASSUME HandleType, NEW v \in Length,
           NEW k \in {"status", "length", "blank", "block"}, HeadChunk(Chunk(k, v))
    PROVE  LET c == Chunk(k, v)
           IN  /\ http' = [res_type |-> IF k = "blank" THEN Type0(c) + 1 ELSE Type0(c),
                           res_code |-> http.res_code,
                           named |-> IF k = "length" /\ Named0(c) = NONE THEN v ELSE Named0(c),
                           res_content_length |-> IF k = "blank" THEN Named0(c)
                                                  ELSE http.res_content_length,
                           res_body |-> http.res_body, strerror |-> http.strerror,
                           write_func |-> http.write_func]
               /\ http' \in Structs
               /\ UNCHANGED given
               /\ pc' = IF k = "blank" /\ Named0(c) = BARE THEN "stuck" ELSE pc
<1> DEFINE c == Chunk(k, v)
           f == [res_type |-> Type0(c), res_code |-> http.res_code, named |-> Named0(c),
                 res_content_length |-> http.res_content_length,
                 res_body |-> http.res_body, strerror |-> http.strerror,
                 write_func |-> http.write_func]
<1>1. c.kind = k /\ c.value = v
    BY DEF Chunk
<1>2. Fresh(c) = f /\ f \in Structs /\ Type0(c) \in {0, 2, 4, 6}
    BY FreshFields DEF HeadChunk
<1>3. Named0(c) \in Length
    BY <1>2 DEF Structs
<1>4. /\ http' = CASE k = "length" /\ Named0(c) = NONE -> [f EXCEPT !.named = v]
                   [] k = "blank" -> [f EXCEPT !.res_type = @ + 1, !.res_content_length = Named0(c)]
                   [] OTHER       -> f
      /\ UNCHANGED given
      /\ pc' = IF k = "blank" /\ Named0(c) = BARE THEN "stuck" ELSE pc
    <2> HIDE DEF c
    <2>1. HeadChunk(c)
        BY DEF c
    <2>2. f.named = Named0(c)
        OBVIOUS
    <2> HIDE DEF f
    <2> QED BY <1>1, <1>2, <2>1, <2>2 DEF HeadChunk
<1> HIDE DEF c
<1>5. http' = [res_type |-> IF k = "blank" THEN Type0(c) + 1 ELSE Type0(c),
               res_code |-> http.res_code,
               named |-> IF k = "length" /\ Named0(c) = NONE THEN v ELSE Named0(c),
               res_content_length |-> IF k = "blank" THEN Named0(c) ELSE http.res_content_length,
               res_body |-> http.res_body, strerror |-> http.strerror,
               write_func |-> http.write_func]
    <2>1. CASE k = "length"
        BY <1>4, <2>1
    <2>2. CASE k = "blank"
        BY <1>4, <2>2
    <2>3. CASE k \notin {"length", "blank"}
        BY <1>4, <2>3
    <2> QED BY <2>1, <2>2, <2>3
<1>6. http' \in Structs
    <2>1. /\ Type0(c) \in {0, 2, 4, 6} /\ Named0(c) \in Length /\ http.res_code \in Code
          /\ http.res_content_length \in Length /\ http.res_body \in Seq(Length)
          /\ http.strerror \in Message /\ http.write_func \in 0 .. 1
        BY <1>2, <1>3 DEF HandleType, Structs
    <2> HIDE DEF f
    <2> QED BY <1>5, <2>1 DEF Structs
<1> QED BY <1>4, <1>5, <1>6 DEF c

\* The last block of what was asked for
Last == IF req.len # 0 THEN req.from + req.len - 1 ELSE Size - 1

LEMMA WantedRun ==
    ASSUME HandleInv
    PROVE  /\ req.from \in Nat /\ Last \in -1 .. Size - 1 /\ req.from <= Last
           /\ Wanted = Run(req.from, Last)
           /\ Wanted \in Seq(0 .. Size) /\ Len(Wanted) \in 1 .. Size
<1>1. req.from \in 0 .. Size - 1 /\ req.len \in 0 .. Size /\ req.from + req.len <= Size
    BY DEF HandleInv, HandleType, Reqs, OptInv
<1>2. req.from \in Nat /\ Last \in -1 .. Size - 1 /\ req.from <= Last
    BY <1>1 DEF Last
<1>3. Wanted = Run(req.from, Last)
    BY DEF Wanted, Last
<1>4. req.from <= Last + 1
    BY <1>2
<1>5. Wanted \in Seq(0 .. Size) /\ Len(Wanted) = Last - req.from + 1
    <2>1. \A a \in Nat, b \in -1 .. Size - 1 :
            a <= b + 1 => Run(a, b) \in Seq(0 .. Size) /\ Len(Run(a, b)) = b - a + 1
        BY RunType
    <2> QED BY <1>2, <1>3, <1>4, <2>1
<1> QED BY <1>2, <1>3, <1>5

\* The server sends what was asked for, or all there is.
LEMMA ServedRun ==
    ASSUME HandleInv, Running
    PROVE  /\ Served \in Seq(0 .. Size) /\ Len(Served) \in 1 .. Size
           /\ "whole" \notin Faults => Served = Wanted
<1>1. Whole \in Seq(0 .. Size) /\ Len(Whole) = Size
    BY RunType DEF Whole
<1>2. req.from \in 0 .. Size - 1 /\ req.len \in 0 .. Size
    BY DEF HandleInv, HandleType, Reqs
<1>3. "whole" \notin Faults => Served = Wanted
    <2>1. CASE req.len # 0
        <3>1. opt.resume = 0 /\ opt.range = <<req.from, req.from + req.len - 1>>
            BY <2>1 DEF HandleInv, OptInv
        <3>2. opt.range # <<>> /\ opt.range[1] = req.from /\ opt.range[2] = req.from + req.len - 1
            BY <3>1
        <3> QED BY <2>1, <3>1, <3>2 DEF Served, Wanted
    <2>2. CASE req.len = 0
        <3>1. opt.resume = req.from /\ opt.range = <<>>
            BY <2>2 DEF HandleInv, OptInv
        <3> QED BY <2>2, <3>1 DEF Served, Wanted, Whole
    <2> QED BY <2>1, <2>2
<1>4. "whole" \in Faults => Served = Whole
    BY DEF Served
<1> QED BY <1>1, <1>3, <1>4, WantedRun

\* What a chunk does to the handle
LEMMA WriteKeeps ==
    ASSUME HandleInv, pc = "transfer", NEW v \in Length,
           NEW k \in {"status", "length", "blank", "block"}, pcs_http_write(Chunk(k, v))
    PROVE  /\ http' \in Structs /\ given' \in Givens
           /\ pc' \in {"transfer", "failed", "stuck"}
           /\ pc' = "transfer" => http'.strerror = http.strerror
           /\ http'.res_type \in {Base, Base + 1}
<1> DEFINE c == Chunk(k, v)
<1>1. /\ http \in Structs /\ given \in Givens /\ http.res_type \in {Base, Base + 1}
    BY DEF HandleInv, HandleType, ParseInv, Running
<1>2. Base \in {0, 4, 6}
    BY DEF Base, NORMAL, RAW, DOWNLOAD
<1>3. c.value = v
    BY DEF Chunk
<1>4. CASE UNCHANGED <<http, given, pc>>
    BY <1>1, <1>4
<1>5. CASE HeadChunk(c)
    <2>1. /\ http' \in Structs /\ UNCHANGED given /\ pc' \in {"transfer", "stuck"}
          /\ http'.strerror = http.strerror
          /\ http'.res_type = IF k = "blank" THEN Type0(c) + 1 ELSE Type0(c)
        BY <1>5, HeadFields DEF HandleInv
    <2>2. Type0(c) \in {0, 2, 4, 6}
        BY <1>5, FreshFields DEF HandleInv, HeadChunk
    <2>3. Type0(c) \in {http.res_type, http.res_type - 1}
        BY DEF Type0
    <2>4. Type0(c) = Base
        BY <1>1, <1>2, <2>2, <2>3
    <2> QED BY <1>1, <1>2, <2>1, <2>4
<1>6. CASE BodyChunk(c)
    <2>1. http' = [http EXCEPT !.res_body = Append(@, v)] /\ UNCHANGED <<given, pc>>
        BY <1>3, <1>6 DEF BodyChunk
    <2>2. Append(http.res_body, v) \in Seq(Length)
        BY <1>1, AppendProperties DEF Structs
    <2>3. /\ http' \in Structs /\ http'.strerror = http.strerror
          /\ http'.res_type = http.res_type
        BY <1>1, <2>1, <2>2 DEF Structs
    <2> QED BY <1>1, <2>1, <2>3
<1>7. CASE GivenChunk(c)
    <2>1. CASE UNCHANGED <<http, pc>>
        <3>1. given' = given \/
              given' = [blocks |-> Append(given.blocks, v),
                        told |-> given.told \union {http.res_content_length}]
            BY <1>3, <1>7 DEF GivenChunk
        <3>2. /\ Append(given.blocks, v) \in Seq(Length)
              /\ given.told \union {http.res_content_length} \in SUBSET Length
            BY <1>1, AppendProperties DEF Givens, Structs
        <3>3. given' \in Givens
            BY <1>1, <3>1, <3>2 DEF Givens
        <3> QED BY <1>1, <2>1, <3>3
    <2>2. CASE pc' = "failed" /\ UNCHANGED <<http, given>>
        BY <1>1, <2>2
    <2> QED BY <1>7, <2>1, <2>2 DEF GivenChunk
<1>8. CASE NoFunction(c)
    <2>1. http' = [http EXCEPT !.strerror = "nofunction"] /\ pc' = "failed" /\ UNCHANGED given
        BY <1>8 DEF NoFunction
    <2>2. http' \in Structs /\ http'.res_type = http.res_type
        BY <1>1, <2>1 DEF Structs, Message
    <2> QED BY <1>1, <2>1, <2>2
<1> QED BY <1>4, <1>5, <1>6, <1>7, <1>8 DEF pcs_http_write

\* A step in which nothing but the transfer goes on
LEMMA TransferKeeps ==
    ASSUME HandleInv, pc = "transfer", UNCHANGED <<opt, req, ans>>,
           http' \in Structs, given' \in Givens, pc' \in {"transfer", "done", "failed", "stuck"},
           pc' \in {"transfer", "done"} => http'.strerror = http.strerror,
           http'.res_type \in {Base, Base + 1},
           wire' \in Wires, HopInv'
    PROVE  HandleInv'
<1>1. HandleType' /\ QuietInv'
    BY DEF HandleInv, HandleType, QuietInv
<1>2. Base' = Base
    BY DEF Base
<1>3. ParseInv'
    BY <1>2 DEF ParseInv
<1>4. OptInv'
    BY DEF HandleInv, OptInv, Running
<1> QED BY <1>1, <1>3, <1>4 DEF HandleInv

LEMMA StatusLineKeeps == HandleInv /\ StatusLine => HandleInv'
<1> SUFFICES ASSUME HandleInv, StatusLine PROVE HandleInv'
    OBVIOUS
<1> USE DEF NONE, BARE
<1>1. PICK code \in Answer :
        \E left \in IF code \in {200, 206} THEN {Served, <<>>}
                    ELSE IF Interim(code) THEN {<<>>} ELSE {<<>>, Page} :
          wire' = [wire EXCEPT !.at = "head", !.code = code, !.left = left,
                               !.len = NONE, !.lines = 0]
    BY DEF StatusLine
<1>2. PICK left \in IF code \in {200, 206} THEN {Served, <<>>}
                    ELSE IF Interim(code) THEN {<<>>} ELSE {<<>>, Page} :
          wire' = [wire EXCEPT !.at = "head", !.code = code, !.left = left,
                               !.len = NONE, !.lines = 0]
    BY <1>1
<1>3. pc = "transfer" /\ UNCHANGED <<opt, req, ans>> /\ pcs_http_write(Chunk("status", 0))
    BY DEF StatusLine
<1>4. code \in Code
    BY DEF Answer, Code
<1>5. left \in Seq(0 .. Size) /\ Len(left) <= Size
    <2> DEFINE Fits(q) == q \in Seq(0 .. Size) /\ Len(q) <= Size
    <2>1. Fits(Page)
        BY DEF Page
    <2>2. Fits(<<>>)
        BY EmptySeq
    <2>3. Fits(Served)
        BY <1>3, ServedRun DEF Running
    <2>4. left \in {Served, <<>>, Page}
        BY <1>2
    <2> HIDE DEF Fits
    <2>5. Fits(left)
        BY <2>1, <2>2, <2>3, <2>4, Zenon
    <2> QED BY <2>5 DEF Fits
<1>6. wire' = [hop |-> wire.hop, at |-> "head", code |-> code, left |-> left,
               len |-> NONE, lines |-> 0]
    BY <1>2 DEF HandleInv, HandleType, Wires
<1>7. wire' \in Wires
    <2>1. wire.hop \in 0 .. MaxHops
        BY DEF HandleInv, HandleType, Wires
    <2> QED BY <1>4, <1>5, <1>6, <2>1 DEF Wires, Place, Length
<1>8. HopInv'
    <2>1. Interim(code) => wire.hop < MaxHops
        <3>1. wire.hop \in 0 .. MaxHops /\ req.follow \in 0 .. 1
            BY DEF HandleInv, HandleType, Wires, Reqs
        <3> QED BY <1>1, <3>1 DEF Answer, Interim
    <2>2. Interim(code)' = Interim(code)
        BY <1>3 DEF Interim
    <2> QED BY <1>3, <1>5, <1>6, <2>1, <2>2 DEF HopInv, Interim
<1>9. 0 \in Length
    BY DEF Length
<1> QED BY <1>3, <1>7, <1>8, <1>9, WriteKeeps, TransferKeeps

LEMMA FieldLineKeeps == HandleInv /\ FieldLine => HandleInv'
<1> SUFFICES ASSUME HandleInv, FieldLine PROVE HandleInv'
    OBVIOUS
<1> USE DEF NONE, BARE
<1>1. PICK v \in (IF wire.len = NONE THEN {Len(wire.left)} ELSE {})
                 \union (IF "bare" \in Faults THEN {BARE} ELSE {}) :
          /\ wire' = [wire EXCEPT !.len = IF v = BARE THEN @ ELSE v, !.lines = @ + 1]
          /\ pcs_http_write(Chunk("length", v))
    BY DEF FieldLine
<1>2. pc = "transfer" /\ wire.lines < 2 /\ UNCHANGED <<opt, req, ans>>
    BY DEF FieldLine
<1>3. /\ wire \in Wires /\ Len(wire.left) <= Size /\ Len(wire.left) \in Nat
    BY LenProperties DEF HandleInv, HandleType, HopInv, Wires
<1>4. v \in Length
    BY <1>1, <1>3 DEF Length
<1>5. wire' = [hop |-> wire.hop, at |-> wire.at, code |-> wire.code, left |-> wire.left,
               len |-> IF v = BARE THEN wire.len ELSE v, lines |-> wire.lines + 1]
    BY <1>1, <1>3 DEF Wires
<1>6. wire' \in Wires
    BY <1>2, <1>3, <1>4, <1>5 DEF Wires
<1>7. HopInv'
    BY <1>2, <1>3, <1>5 DEF HandleInv, HopInv, Interim
<1> QED BY <1>1, <1>2, <1>4, <1>6, <1>7, WriteKeeps, TransferKeeps

LEMMA BlankLineKeeps == HandleInv /\ BlankLine => HandleInv'
<1> SUFFICES ASSUME HandleInv, BlankLine PROVE HandleInv'
    OBVIOUS
<1>1. /\ pc = "transfer" /\ wire.at = "head" /\ UNCHANGED <<opt, req, ans>>
      /\ pcs_http_write(Chunk("blank", 0))
    BY DEF BlankLine
<1>2. /\ wire \in Wires /\ Len(wire.left) <= Size
      /\ Interim(wire.code) => wire.hop < MaxHops
    BY <1>1 DEF HandleInv, HandleType, HopInv
<1>3. wire' = [hop |-> IF Interim(wire.code) THEN wire.hop + 1 ELSE wire.hop,
               at |-> IF Interim(wire.code) THEN "status" ELSE "body", code |-> wire.code,
               left |-> IF req.op = "size" THEN <<>> ELSE wire.left,
               len |-> wire.len, lines |-> wire.lines]
    BY <1>2 DEF BlankLine, Wires
<1>4. <<>> \in Seq(0 .. Size) /\ Len(<<>>) = 0
    BY EmptySeq
<1>5. wire' \in Wires
    <2>1. /\ wire.hop \in 0 .. MaxHops /\ wire.code \in Code /\ wire.len \in Length
          /\ wire.lines \in 0 .. 2 /\ wire.left \in Seq(0 .. Size)
        BY <1>2 DEF Wires
    <2>2. (IF Interim(wire.code) THEN wire.hop + 1 ELSE wire.hop) \in 0 .. MaxHops
        BY <1>2, <2>1
    <2>3. (IF req.op = "size" THEN <<>> ELSE wire.left) \in Seq(0 .. Size)
        BY <1>4, <2>1
    <2>4. (IF Interim(wire.code) THEN "status" ELSE "body") \in Place
        BY DEF Place
    <2> QED BY <1>3, <2>1, <2>2, <2>3, <2>4 DEF Wires
<1>6. HopInv'
    BY <1>2, <1>3, <1>4 DEF HopInv
<1>7. 0 \in Length
    BY DEF Length, BARE
<1> QED BY <1>1, <1>5, <1>6, <1>7, WriteKeeps, TransferKeeps

LEMMA BlockKeeps == HandleInv /\ Block => HandleInv'
<1> SUFFICES ASSUME HandleInv, Block PROVE HandleInv'
    OBVIOUS
<1>1. /\ pc = "transfer" /\ wire.at = "body" /\ wire.left # <<>> /\ UNCHANGED <<opt, req, ans>>
      /\ pcs_http_write(Chunk("block", Head(wire.left)))
    BY DEF Block
<1>2. wire \in Wires /\ wire.left \in Seq(0 .. Size) /\ Len(wire.left) <= Size
    BY DEF HandleInv, HandleType, HopInv, Wires
<1>3. /\ Head(wire.left) \in 0 .. Size /\ Tail(wire.left) \in Seq(0 .. Size)
      /\ Len(Tail(wire.left)) <= Size
    <2>1. /\ Head(wire.left) \in 0 .. Size /\ Tail(wire.left) \in Seq(0 .. Size)
          /\ Len(Tail(wire.left)) = Len(wire.left) - 1
        BY <1>1, <1>2, HeadTailProperties
    <2>2. Len(wire.left) \in Nat
        BY <1>2, LenProperties
    <2> QED BY <1>2, <2>1, <2>2
<1>4. wire' = [hop |-> wire.hop, at |-> wire.at, code |-> wire.code, left |-> Tail(wire.left),
               len |-> wire.len, lines |-> wire.lines]
    BY <1>2 DEF Block, Wires
<1>5. wire' \in Wires
    BY <1>2, <1>3, <1>4 DEF Wires
<1>6. HopInv'
    BY <1>1, <1>3, <1>4 DEF HopInv
<1>7. Head(wire.left) \in Length
    BY <1>3 DEF Length, BARE
<1> QED BY <1>1, <1>5, <1>6, <1>7, WriteKeeps, TransferKeeps

LEMMA Cleared ==
    /\ <<>> \in Seq(Length) /\ <<>> \in Seq(0 .. Size) /\ Len(<<>>) = 0
    /\ Struct \in Structs /\ NoReq \in Reqs /\ NoWire \in Wires /\ Nothing \in Givens
<1>1. <<>> \in Seq(Length) /\ <<>> \in Seq(0 .. Size) /\ Len(<<>>) = 0
    BY EmptySeq
<1>2. Struct \in Structs
    BY <1>1 DEF Struct, Structs, NORMAL, NONE, BARE, Code, Length, Message
<1>3. NoReq \in Reqs
    BY DEF NoReq, Reqs, Kind
<1>4. NoWire \in Wires
    BY <1>1 DEF NoWire, Wires, NONE, BARE, Place, Code, Length
<1>5. Nothing \in Givens
    BY <1>1 DEF Nothing, Givens
<1> QED BY <1>1, <1>2, <1>3, <1>4, <1>5

\* Handles come and go, and keep their write function.
LEMMA HandleKeeps ==
    HandleInv /\ (pcs_http_create \/ pcs_http_destroy \/ pcs_http_setopt \/ pcs_http_get_cookie)
        => HandleInv'
<1> SUFFICES ASSUME HandleInv,
                    pcs_http_create \/ pcs_http_destroy \/ pcs_http_setopt \/ pcs_http_get_cookie
             PROVE  HandleInv'
    OBVIOUS
<1> USE DEF HandleInv, HandleType
<1>1. CASE pcs_http_create
    <2>1. HandleType' /\ ParseInv' /\ QuietInv'
        BY <1>1, Cleared DEF pcs_http_create, ParseInv, QuietInv, Running
    <2>2. OptInv' /\ HopInv'
        BY <1>1 DEF pcs_http_create, OptInv, HopInv, Running, Interim
    <2> QED BY <2>1, <2>2
<1>2. CASE pcs_http_destroy
    <2>1. HandleType' /\ ParseInv' /\ QuietInv'
        BY <1>2, Cleared DEF pcs_http_destroy, ParseInv, QuietInv, Running
    <2>2. OptInv' /\ HopInv'
        BY <1>2, Cleared DEF pcs_http_destroy, OptInv, HopInv, Running, Interim, NoReq, NoWire
    <2> QED BY <2>1, <2>2
<1>3. CASE pcs_http_setopt
    <2>1. http' \in Structs
        BY <1>3 DEF pcs_http_setopt, Structs
    <2>2. HandleType' /\ ParseInv' /\ QuietInv'
        BY <1>3, <2>1 DEF pcs_http_setopt, ParseInv, QuietInv, Running
    <2>3. OptInv' /\ HopInv'
        BY <1>3 DEF pcs_http_setopt, OptInv, HopInv, Running, Interim
    <2> QED BY <2>2, <2>3
<1>4. CASE pcs_http_get_cookie
    <2>1. req' = [op |-> "cookie", follow |-> 0, from |-> 0, len |-> 0]
        BY <1>4 DEF pcs_http_get_cookie, NoReq
    <2>2. ans' \in {"cookie", "null", "freed"}
        BY <1>4 DEF pcs_http_get_cookie
    <2>3. HandleType' /\ ParseInv' /\ QuietInv'
        BY <1>4, <2>1, <2>2, Cleared DEF pcs_http_get_cookie, ParseInv, QuietInv, Running, Reqs, Kind
    <2>4. OptInv' /\ HopInv'
        BY <1>4, <2>1, Cleared DEF pcs_http_get_cookie, OptInv, HopInv, Running, Interim, NoWire
    <2> QED BY <2>3, <2>4
<1> QED BY <1>1, <1>2, <1>3, <1>4

\* The type of the handle of each request
TypeOf(op) == CASE op = "download" -> DOWNLOAD [] op = "raw" -> RAW [] OTHER -> NORMAL

\* A request starts from what the last one left in the handle.
LEMMA PrepareKeeps ==
    ASSUME HandleInv, opt = NoOpt, NEW op \in Kind, NEW follow \in 0 .. 1,
           NEW from \in 0 .. Size - 1, NEW len \in 0 .. Size, from + len <= Size,
           pcs_http_prepare(op, TypeOf(op), follow, from, len)
    PROVE  HandleInv'
<1>1. pc' = "transfer" /\ ans' = "none" /\ wire' = NoWire /\ given' = Nothing
    BY DEF pcs_http_prepare
<1>2. req' = [op |-> op, follow |-> follow, from |-> from, len |-> len]
    BY DEF pcs_http_prepare
<1>3. TypeOf(op) \in {0, 4, 6} /\ Base' = TypeOf(op)
    BY <1>2 DEF TypeOf, Base, DOWNLOAD, RAW, NORMAL
<1>4. http' = [res_type |-> TypeOf(op), res_code |-> 0, named |-> NONE, res_content_length |-> 0,
               res_body |-> <<>>, strerror |-> "none", write_func |-> http.write_func]
    <2>1. Reset = [res_type |-> NORMAL, res_code |-> 0, named |-> NONE, res_content_length |-> 0,
                   res_body |-> <<>>, strerror |-> "none", write_func |-> http.write_func]
        BY DEF Reset, Struct
    <2>2. http' = IF TypeOf(op) = NORMAL THEN Reset ELSE [Reset EXCEPT !.res_type = TypeOf(op)]
        BY DEF pcs_http_prepare
    <2> QED BY <2>1, <2>2
<1>5. http' \in Structs
    <2>1. http.write_func \in 0 .. 1
        BY DEF HandleInv, HandleType, Structs
    <2> QED BY <1>3, <1>4, <2>1, Cleared DEF Structs, NONE, BARE, Code, Length, Message
<1>6. req' \in Reqs
    BY <1>2 DEF Reqs
<1>7. HandleType' /\ ParseInv' /\ QuietInv'
    BY <1>1, <1>3, <1>4, <1>5, <1>6, Cleared DEF HandleType, ParseInv, QuietInv
<1>8. HopInv'
    BY <1>1, Cleared DEF HopInv, NoWire
<1>9. OptInv'
    <2>1. opt' = IF len # 0 THEN [opt EXCEPT !.range = <<from, from + len - 1>>]
                 ELSE [opt EXCEPT !.resume = from]
        BY DEF pcs_http_prepare, RangeAsked
    <2>2. opt' = IF len # 0 THEN [range |-> <<from, from + len - 1>>, resume |-> 0]
                 ELSE [range |-> <<>>, resume |-> from]
        BY <2>1 DEF NoOpt
    <2> QED BY <1>2, <2>2 DEF OptInv
<1> QED BY <1>7, <1>8, <1>9 DEF HandleInv

\* Each request is such a preparation.
LEMMA RequestPrepares ==
    ASSUME Request
    PROVE  /\ pc = "idle" /\ opt = NoOpt
           /\ \E op \in Kind, follow \in 0 .. 1, from \in 0 .. Size - 1, len \in 0 .. Size :
                from + len <= Size /\ pcs_http_prepare(op, TypeOf(op), follow, from, len)
<1> USE DEF Kind, TypeOf
<1>1. opt = NoOpt
    BY DEF Request
<1>2. ASSUME NEW op \in Kind, NEW follow \in 0 .. 1, NEW from \in 0 .. Size - 1,
             NEW len \in 0 .. Size, from + len <= Size,
             pcs_http_prepare(op, TypeOf(op), follow, from, len)
      PROVE  /\ pc = "idle"
             /\ \E o \in Kind, w \in 0 .. 1, f \in 0 .. Size - 1, n \in 0 .. Size :
                  f + n <= Size /\ pcs_http_prepare(o, TypeOf(o), w, f, n)
    <2>1. pc = "idle"
        BY <1>2 DEF pcs_http_prepare
    <2> HIDE DEF Kind, TypeOf
    <2> QED BY <1>2, <2>1
<1>3. 0 \in 0 .. Size - 1 /\ 0 \in 0 .. Size /\ 0 + 0 <= Size /\ 0 \in 0 .. 1 /\ 1 \in 0 .. 1
    OBVIOUS
<1>4. CASE \E follow \in 0 .. 1 : pcs_http_get(follow)
    <2>1. PICK follow \in 0 .. 1 : pcs_http_prepare("get", TypeOf("get"), follow, 0, 0)
        BY <1>4 DEF pcs_http_get
    <2> QED BY <1>1, <1>2, <1>3, <2>1
<1>5. CASE pcs_http_get_raw
    <2>1. pcs_http_prepare("raw", TypeOf("raw"), 1, 0, 0)
        BY <1>5 DEF pcs_http_get_raw
    <2> QED BY <1>1, <1>2, <1>3, <2>1
<1>6. CASE pcs_http_post
    <2>1. pcs_http_prepare("post", TypeOf("post"), 1, 0, 0)
        BY <1>6 DEF pcs_http_post
    <2> QED BY <1>1, <1>2, <1>3, <2>1
<1>7. CASE pcs_post_httpform
    <2>1. pcs_http_prepare("form", TypeOf("form"), 1, 0, 0)
        BY <1>7 DEF pcs_post_httpform
    <2> QED BY <1>1, <1>2, <1>3, <2>1
<1>8. CASE get_download_filesize
    <2>1. pcs_http_prepare("size", TypeOf("size"), 1, 0, 0)
        BY <1>8 DEF get_download_filesize
    <2> QED BY <1>1, <1>2, <1>3, <2>1
<1>9. CASE \E from \in 0 .. Size - 1, len \in 0 .. Size :
             from + len <= Size /\ pcs_http_get_download(from, len)
    <2>1. PICK from \in 0 .. Size - 1, len \in 0 .. Size :
             from + len <= Size /\ pcs_http_prepare("download", TypeOf("download"), 1, from, len)
        BY <1>9 DEF pcs_http_get_download
    <2> QED BY <1>1, <1>2, <1>3, <2>1
<1>10. CASE pcs_http_get_download(0, 0)
    BY <1>3, <1>9, <1>10
<1> QED BY <1>4, <1>5, <1>6, <1>7, <1>8, <1>9, <1>10 DEF Request

LEMMA RequestKeeps == HandleInv /\ Request => HandleInv'
BY RequestPrepares, PrepareKeeps

LEMMA EndKeeps == HandleInv /\ (Finish \/ Break) => HandleInv'
<1> SUFFICES ASSUME HandleInv, Finish \/ Break PROVE HandleInv'
    OBVIOUS
<1>1. /\ pc = "transfer" /\ pc' \in {"done", "failed"}
      /\ UNCHANGED <<http, opt, req, wire, given, ans>>
    BY DEF Finish, Break
<1>2. HopInv'
    BY <1>1 DEF HandleInv, HopInv, Interim
<1>3. http' \in Structs /\ given' \in Givens /\ wire' \in Wires /\ http'.res_type \in {Base, Base + 1}
    BY <1>1 DEF HandleInv, HandleType, ParseInv, Running
<1> QED BY <1>1, <1>2, <1>3, TransferKeeps

\* What a call leaves in the struct when it returns
LEMMA PerformFields ==
    ASSUME HandleType, pcs_http_perform
    PROVE  LET why == IF pc = "failed" THEN (IF http.strerror = "none" THEN "curl" ELSE http.strerror)
                      ELSE IF wire.code \in {200, 206} THEN http.strerror ELSE "code"
           IN  /\ http' = [res_type |-> http.res_type, res_code |-> wire.code, named |-> http.named,
                           res_content_length |-> http.res_content_length,
                           res_body |-> http.res_body, strerror |-> why,
                           write_func |-> http.write_func]
               /\ http' \in Structs
               /\ ans' = IF req.op = "download" THEN (IF why = "none" THEN "true" ELSE "false")
                         ELSE IF pc = "done" /\ wire.code \in {200, 206} /\ http.res_body # <<>>
                              THEN "value" ELSE "null"
<1> DEFINE good == wire.code \in {200, 206}
           why == IF pc = "failed" THEN (IF http.strerror = "none" THEN "curl" ELSE http.strerror)
                  ELSE IF good THEN http.strerror ELSE "code"
           told == [res_type |-> http.res_type, res_code |-> wire.code, named |-> http.named,
                    res_content_length |-> http.res_content_length,
                    res_body |-> http.res_body, strerror |-> http.strerror,
                    write_func |-> http.write_func]
           h == IF pc = "failed" THEN Explain(Said(http), "curl")
                ELSE IF ~good THEN [Said(http) EXCEPT !.strerror = "code"] ELSE Said(http)
           answer == IF pc = "done" /\ good /\ h.res_body # <<>> THEN "value" ELSE "null"
<1>1. http \in Structs /\ wire.code \in Code
    BY DEF HandleType, Wires
<1>2. Said(http) = told
    BY <1>1 DEF Said, Structs
<1>3. h = [res_type |-> http.res_type, res_code |-> wire.code, named |-> http.named,
           res_content_length |-> http.res_content_length,
           res_body |-> http.res_body, strerror |-> why, write_func |-> http.write_func]
    <2>1. CASE pc = "failed"
        BY <1>2, <2>1 DEF Explain
    <2>2. CASE pc # "failed" /\ ~good
        BY <1>2, <2>2
    <2>3. CASE pc # "failed" /\ good
        BY <1>2, <2>3
    <2> QED BY <2>1, <2>2, <2>3
<1>4. http' = h /\ ans' = Result(h, answer)
    BY DEF pcs_http_perform
<1>5. h \in Structs
    <2>1. why \in Message
        BY <1>1 DEF Structs, Message
    <2>2. /\ http.res_type \in 0 .. 7 /\ http.named \in Length /\ http.res_content_length \in Length
          /\ http.res_body \in Seq(Length) /\ http.write_func \in 0 .. 1
        BY <1>1 DEF Structs
    <2> HIDE DEF h, why
    <2> QED BY <1>1, <1>3, <2>1, <2>2 DEF Structs
<1>6. h.strerror = why /\ h.res_body = http.res_body
    <2> HIDE DEF h, why
    <2> QED BY <1>3
<1>7. Result(h, answer) = IF req.op = "download" THEN (IF why = "none" THEN "true" ELSE "false")
                          ELSE IF pc = "done" /\ good /\ http.res_body # <<>> THEN "value" ELSE "null"
    <2> HIDE DEF h, why, good
    <2> QED BY <1>6 DEF Result
<1> QED BY <1>3, <1>4, <1>5, <1>7

LEMMA ReturnKeeps == HandleInv /\ (pcs_http_perform \/ DownloadFilesize) => HandleInv'
<1> SUFFICES ASSUME HandleInv, pcs_http_perform \/ DownloadFilesize PROVE HandleInv'
    OBVIOUS
<1>1. pc' = "idle" /\ UNCHANGED <<opt, req, wire, given>>
    BY DEF pcs_http_perform, DownloadFilesize
<1>2. http' \in Structs /\ ans' \in {"null", "value", "true", "false"}
    <2>1. CASE pcs_http_perform
        BY <2>1, PerformFields DEF HandleInv
    <2>2. CASE DownloadFilesize
        <3>1. http \in Structs
            BY DEF HandleInv, HandleType
        <3>2. Explain(http, "curl") \in Structs
            BY <3>1 DEF Explain, Structs, Message
        <3> QED BY <2>2, <3>1, <3>2 DEF DownloadFilesize
    <2> QED BY <2>1, <2>2
<1>3. HandleType' /\ ParseInv' /\ QuietInv'
    BY <1>1, <1>2 DEF HandleInv, HandleType, ParseInv, QuietInv, Running
<1>4. OptInv' /\ HopInv'
    BY <1>1 DEF HandleInv, OptInv, HopInv, Running, Interim
<1> QED BY <1>3, <1>4 DEF HandleInv

LEMMA HandleStep == HandleInv /\ [Next]_vars => HandleInv'
<1> SUFFICES ASSUME HandleInv, [Next]_vars PROVE HandleInv'
    OBVIOUS
<1>1. CASE HttpNext
    BY <1>1, HandleKeeps, RequestKeeps, StatusLineKeeps, FieldLineKeeps, BlankLineKeeps, BlockKeeps,
       EndKeeps, ReturnKeeps DEF HttpNext, Transfer
<1>2. CASE UNCHANGED hvars
    BY <1>2 DEF hvars, HandleInv, HandleType, ParseInv, OptInv, HopInv, QuietInv, Running, Base, Interim
<1> QED BY <1>1, <1>2 DEF Next, vars

\* The handle, the wire and what was given stay in their types, for every set
\* of faults, size and number of answers.
THEOREM HandleInvariant == Spec => []HandleInv
<1>1. Init => HandleInv
    BY InitHandleInv
<1> QED BY <1>1, HandleStep, PTL DEF Spec

\* The type invariant, for every set of faults
THEOREM TypeCorrect == Spec => []TypeOK
<1>1. HandleInv /\ IInv => TypeOK
    <2> SUFFICES ASSUME HandleInv, IInv PROVE TypeOK
        OBVIOUS
    <2>1. /\ http.res_type \in 0 .. 7 /\ http.res_code \in Code /\ http.named \in Length
          /\ http.res_content_length \in Length /\ http.res_body \in Seq(Length)
          /\ http.strerror \in Message /\ http.write_func \in 0 .. 1
          /\ wire.at \in Place /\ wire.hop \in 0 .. MaxHops /\ given.blocks \in Seq(Length)
        BY DEF HandleInv, HandleType, Structs, Wires, Givens
    <2>2. pc = "transfer" /\ req.op \notin {"raw", "download"} => http.res_type \in {NORMAL, NORMAL + 1}
        BY DEF HandleInv, ParseInv, Running, Base
    <2>3. pc \in {"none", "idle", "transfer", "done", "failed", "stuck"}
          /\ ans \in {"none", "null", "value", "true", "false", "cookie", "freed"}
        BY DEF HandleInv, HandleType
    <2>4. http.named \in {NONE, BARE} \union 0 .. Size
          /\ http.res_content_length \in {NONE, BARE} \union 0 .. Size
        BY <2>1 DEF Length, NONE, BARE
    <2>5. url.ampersand \in 0 .. 1 /\ url.left \in 0 .. MaxParams
        BY DEF IInv, UrlType
    <2> QED BY <2>1, <2>2, <2>3, <2>4, <2>5 DEF TypeOK, Code, Length, Message, Place
<1> QED BY <1>1, HandleInvariant, StringsInvariant, PTL

-----------------------------------------------------------------------------
(***************************************************************************)
(* What a call leaves for its caller.                                      *)
(***************************************************************************)
\* A request is not over while something of it is still to come.
LEMMA NotYet ==
    ASSUME HandleInv,
           \/ Request \/ StatusLine \/ FieldLine \/ BlankLine \/ Block \/ Finish \/ Break
    PROVE  pc' # "idle"
<1>1. CASE Request
    BY <1>1, RequestPrepares DEF pcs_http_prepare
<1>2. CASE StatusLine
    <2>1. 0 \in Length
        BY DEF Length, BARE
    <2> QED BY <1>2, <2>1, WriteKeeps DEF StatusLine
<1>3. CASE FieldLine
    <2>1. PICK v \in (IF wire.len = NONE THEN {Len(wire.left)} ELSE {})
                     \union (IF "bare" \in Faults THEN {BARE} ELSE {}) :
            pcs_http_write(Chunk("length", v))
        BY <1>3 DEF FieldLine
    <2>2. Len(wire.left) \in 0 .. Size
        BY LenProperties DEF HandleInv, HandleType, HopInv, Wires
    <2>3. v \in Length
        BY <2>1, <2>2 DEF Length, BARE
    <2> QED BY <1>3, <2>1, <2>3, WriteKeeps DEF FieldLine
<1>4. CASE BlankLine
    <2>1. 0 \in Length
        BY DEF Length, BARE
    <2> QED BY <1>4, <2>1, WriteKeeps DEF BlankLine
<1>5. CASE Block
    <2>1. wire.left \in Seq(0 .. Size) /\ wire.left # <<>>
        BY <1>5 DEF Block, HandleInv, HandleType, Wires
    <2>2. Head(wire.left) \in Length
        BY <2>1, HeadTailProperties DEF Length, BARE
    <2> QED BY <1>5, <2>2, WriteKeeps DEF Block
<1>6. CASE Finish \/ Break
    BY <1>6 DEF Finish, Break
<1> QED BY <1>1, <1>2, <1>3, <1>4, <1>5, <1>6

ExplainedInv == HandleInv /\ Explained

LEMMA ExplainedStep ==
    ASSUME "nocookie" \notin Faults, ExplainedInv, [Next]_vars
    PROVE  ExplainedInv'
<1> USE DEF ExplainedInv, Explained
<1>1. HandleInv'
    BY HandleStep
<1>2. CASE Request \/ StatusLine \/ FieldLine \/ BlankLine \/ Block \/ Finish \/ Break
    BY <1>1, <1>2, NotYet
<1>3. CASE pcs_http_create \/ pcs_http_destroy
    BY <1>1, <1>3 DEF pcs_http_create, pcs_http_destroy
<1>4. CASE pcs_http_setopt
    <2>1. http'.strerror = http.strerror /\ http'.res_body = http.res_body
        BY <1>4 DEF pcs_http_setopt, HandleInv, HandleType, Structs
    <2> QED BY <1>1, <1>4, <2>1 DEF pcs_http_setopt
<1>5. CASE pcs_http_get_cookie
    <2>1. ans' \in {"cookie", "null"} /\ req'.op = "cookie"
        BY <1>5 DEF pcs_http_get_cookie, NoReq
    <2> QED BY <1>1, <2>1
<1>6. CASE pcs_http_perform
    <2>1. http'.strerror = IF pc = "failed"
                           THEN (IF http.strerror = "none" THEN "curl" ELSE http.strerror)
                           ELSE IF wire.code \in {200, 206} THEN http.strerror ELSE "code"
        BY <1>6, PerformFields DEF HandleInv
    <2>2. ans' = IF req.op = "download" THEN (IF http'.strerror = "none" THEN "true" ELSE "false")
                 ELSE IF pc = "done" /\ wire.code \in {200, 206} /\ http.res_body # <<>>
                      THEN "value" ELSE "null"
        BY <1>6, <2>1, PerformFields DEF HandleInv
    <2>3. http'.res_body = http.res_body /\ UNCHANGED <<req, wire>> /\ pc \in {"done", "failed"}
        BY <1>6, PerformFields DEF HandleInv, pcs_http_perform
    <2>4. pc = "done" => http.strerror = "none"
        BY DEF HandleInv, QuietInv
    <2> QED BY <1>1, <2>1, <2>2, <2>3, <2>4
<1>7. CASE DownloadFilesize
    <2>1. pc = "done" => http.strerror = "none"
        BY DEF HandleInv, QuietInv
    <2>2. pc = "failed" => http'.strerror # "none"
        BY <1>7 DEF DownloadFilesize, Explain, HandleInv, HandleType, Structs
    <2>3. pc = "done" => http' = http
        BY <1>7 DEF DownloadFilesize
    <2> QED BY <1>1, <1>7, <2>1, <2>2, <2>3 DEF DownloadFilesize
<1>8. CASE UNCHANGED hvars
    BY <1>1, <1>8 DEF hvars
<1> QED BY <1>2, <1>3, <1>4, <1>5, <1>6, <1>7, <1>8 DEF Next, HttpNext, Transfer, vars

\* Unless a cookie is asked for that is not there, every failure of a call has
\* a message of its own and no success has one, whatever was called before and
\* whatever the answers were: HTTP/2, ignored ranges and cut bodies included.
THEOREM ExplainedTheorem ==
    ASSUME "nocookie" \notin Faults
    PROVE  Spec => []Explained
<1>1. Init => ExplainedInv
    BY InitHandleInv DEF ExplainedInv, Explained, Init
<1>2. ExplainedInv /\ [Next]_vars => ExplainedInv'
    BY ExplainedStep
<1>3. ExplainedInv => Explained
    BY DEF ExplainedInv
<1> QED BY <1>1, <1>2, <1>3, PTL DEF Spec

-----------------------------------------------------------------------------
(***************************************************************************)
(* What a call has got: the parsing of the callback against what is left   *)
(* on the wire.                                                            *)
(***************************************************************************)
\* The servers of the run: they speak HTTP/1, know ranges and tell a cut body;
\* and no block begins like a status line.
Clean == Like = {} /\ Faults \intersect {"http2", "whole", "close"} = {}

\* Where the blocks of this request are gathered
Got == IF req.op = "download" THEN given.blocks ELSE http.res_body
Untouched == http.res_body = <<>> /\ given = Nothing
Good == wire.code \in {200, 206}

\* Before a status line the head of the answer before, if there was one, has
\* been read to its end.
AtStatus ==
    /\ Untouched
    /\ wire.hop = 0 => http.res_type = Base /\ http.named = NONE
    /\ wire.hop # 0 => http.res_type = Base + 1

\* In a head, the length that was seen is that of this answer.
AtHead ==
    /\ Untouched /\ http.res_type = Base
    /\ http.named \in {wire.len, BARE} /\ wire.len \in {NONE, Len(wire.left)}
    /\ Good => wire.left \in {<<>>, Wanted}
    /\ Interim(wire.code) => wire.left = <<>>

\* In a body, what was got and what is left make up what was asked for.
AtBody ==
    /\ http.res_type = Base + 1
    /\ http.res_content_length \in {NONE, Len(Got) + Len(wire.left)}
    /\ given.told \subseteq {http.res_content_length}
    /\ Good => \/ wire.left = <<>> /\ Got = <<>>
               \/ \E k \in req.from .. Last + 1 :
                    wire.left = Run(k, Last) /\ Got = Run(req.from, k - 1)

Parting == pc \in {"transfer", "done"} /\ req.op # "size"

PlaceInv ==
    /\ Parting /\ wire.at = "status" => AtStatus
    /\ Parting /\ wire.at = "head" => AtHead
    /\ Parting /\ wire.at = "body" => AtBody
    /\ Parting /\ pc = "done" => wire.at = "body" /\ wire.left = <<>>

WholeInv == HandleInv /\ PlaceInv /\ AnswerWhole

\* The struct while the transfer goes on, and what its type says
LEMMA PartType ==
    ASSUME HandleInv, pc = "transfer"
    PROVE  /\ http \in Structs /\ given \in Givens /\ wire \in Wires
           /\ Base \in {0, 4, 6} /\ (Base = 6 <=> req.op = "download")
           /\ http.res_type = Base => ~ InBody
           /\ http.res_type = Base + 1 => InBody
<1>1. Base \in {0, 4, 6} /\ (Base = 6 <=> req.op = "download")
    BY DEF Base, NORMAL, RAW, DOWNLOAD
<1>2. http \in Structs /\ given \in Givens /\ wire \in Wires
    BY DEF HandleInv, HandleType
<1> QED BY <1>1, <1>2, BodyType

\* A new request has got nothing.
LEMMA RequestWhole == Clean /\ WholeInv /\ Request => WholeInv'
<1> SUFFICES ASSUME Clean, WholeInv, Request PROVE WholeInv'
    OBVIOUS
<1>1. HandleInv'
    BY RequestKeeps DEF WholeInv
<1>2. PICK op \in Kind, follow \in 0 .. 1, from \in 0 .. Size - 1, len \in 0 .. Size :
        pcs_http_prepare(op, TypeOf(op), follow, from, len)
    BY RequestPrepares
<1>3. /\ pc' = "transfer" /\ wire' = NoWire /\ given' = Nothing
      /\ req' = [op |-> op, follow |-> follow, from |-> from, len |-> len]
      /\ http' = IF TypeOf(op) = NORMAL THEN Reset ELSE [Reset EXCEPT !.res_type = TypeOf(op)]
    BY <1>2 DEF pcs_http_prepare
<1>4. /\ http'.res_type = TypeOf(op) /\ http'.named = NONE /\ http'.res_body = <<>>
    BY <1>3 DEF Reset, Struct
<1>5. Base' = TypeOf(op)
    BY <1>3 DEF TypeOf, Base
<1>6. AtStatus' /\ wire'.at = "status"
    BY <1>3, <1>4, <1>5 DEF AtStatus, Untouched, NoWire
<1>7. PlaceInv' /\ AnswerWhole'
    BY <1>3, <1>6 DEF PlaceInv, AnswerWhole, Parting
<1> QED BY <1>1, <1>7 DEF WholeInv

\* The chunk of a header line, in a request whose answers are parted
LEMMA HeadOnly ==
    ASSUME HandleInv, Clean, pc = "transfer", req.op # "size", NEW v \in Length,
           NEW k \in {"status", "length", "blank"}, pcs_http_write(Chunk(k, v)),
           \/ http.res_type = Base /\ k # "status"
           \/ k = "status"
    PROVE  /\ HeadChunk(Chunk(k, v))
           /\ Type0(Chunk(k, v)) = Base
           /\ Named0(Chunk(k, v)) = IF http.res_type = Base THEN http.named ELSE NONE
<1> DEFINE c == Chunk(k, v)
<1>1. c.kind = k /\ c.value = v
    BY DEF Chunk
<1>2. http.res_type \in {Base, Base + 1}
    BY DEF HandleInv, ParseInv, Running
<1>3. Again(c) <=> http.res_type = Base + 1
    <2>1. InBody <=> http.res_type = Base + 1
        BY <1>2, PartType
    <2>2. k = "status" => LooksLikeStatus(c)
        BY <1>1 DEF LooksLikeStatus, Clean
    <2>3. http.res_type = Base + 1 => k = "status"
        BY PartType
    <2> HIDE DEF c
    <2> QED BY <2>1, <2>2, <2>3 DEF Again
<1>4. InHead(c)
    BY <1>2, <1>3, PartType DEF InHead
<1>5. HeadChunk(c)
    BY <1>4 DEF pcs_http_write, BodyChunk, GivenChunk, NoFunction
<1>6. Type0(c) = Base /\ Named0(c) = IF http.res_type = Base THEN http.named ELSE NONE
    <2> HIDE DEF c
    <2> QED BY <1>2, <1>3, PartType DEF Type0, Named0
<1> QED BY <1>5, <1>6

LEMMA StatusLineWhole == Clean /\ WholeInv /\ StatusLine => WholeInv'
<1> SUFFICES ASSUME Clean, WholeInv, StatusLine PROVE WholeInv'
    OBVIOUS
<1>1. HandleInv /\ HandleInv'
    BY StatusLineKeeps DEF WholeInv
<1>2. /\ pc = "transfer" /\ wire.at = "status" /\ UNCHANGED <<opt, req, ans>>
      /\ pcs_http_write(Chunk("status", 0))
    BY DEF StatusLine
<1>3. PICK code \in Answer :
        \E left \in IF code \in {200, 206} THEN {Served, <<>>}
                    ELSE IF Interim(code) THEN {<<>>} ELSE {<<>>, Page} :
          wire' = [wire EXCEPT !.at = "head", !.code = code, !.left = left,
                               !.len = NONE, !.lines = 0]
    BY DEF StatusLine
<1>4. PICK left \in IF code \in {200, 206} THEN {Served, <<>>}
                    ELSE IF Interim(code) THEN {<<>>} ELSE {<<>>, Page} :
          wire' = [wire EXCEPT !.at = "head", !.code = code, !.left = left,
                               !.len = NONE, !.lines = 0]
    BY <1>3
<1>5. wire' = [hop |-> wire.hop, at |-> "head", code |-> code, left |-> left,
               len |-> NONE, lines |-> 0]
    BY <1>1, <1>4 DEF HandleInv, HandleType, Wires
<1>6. pc' # "idle"
    BY <1>1, NotYet
<1>7. CASE req.op = "size"
    BY <1>1, <1>2, <1>6, <1>7 DEF WholeInv, PlaceInv, AnswerWhole, Parting
<1>8. CASE req.op # "size"
    <2>1. AtStatus
        BY <1>2, <1>8 DEF WholeInv, PlaceInv, Parting
    <2>2. 0 \in Length
        BY DEF Length, BARE
    <2>3. /\ HeadChunk(Chunk("status", 0)) /\ Type0(Chunk("status", 0)) = Base
          /\ Named0(Chunk("status", 0)) = IF http.res_type = Base THEN http.named ELSE NONE
        BY <1>1, <1>2, <1>8, <2>2, HeadOnly
    <2>4. Named0(Chunk("status", 0)) = NONE
        <3>1. wire.hop = 0 => http.named = NONE
            BY <2>1 DEF AtStatus
        <3>2. wire.hop # 0 => http.res_type # Base
            BY <1>1, <1>2, <2>1, PartType DEF AtStatus
        <3> QED BY <2>3, <3>1, <3>2
    <2>5. /\ http'.res_type = Base /\ http'.named = NONE /\ http'.res_body = http.res_body
          /\ UNCHANGED given /\ pc' = pc
        BY <1>1, <2>2, <2>3, <2>4, HeadFields DEF HandleInv
    <2>6. Untouched' /\ Base' = Base
        BY <1>2, <2>1, <2>5 DEF AtStatus, Untouched, Base
    <2>7. code \in {200, 206} => left \in {<<>>, Wanted}
        BY <1>1, <1>2, <1>4, ServedRun DEF Running, Clean
    <2>8. Wanted' = Wanted /\ Interim(code)' = Interim(code)
        BY <1>2 DEF Wanted, Interim
    <2>9. Interim(code) => left = <<>>
        BY <1>4 DEF Interim
    <2>10. AtHead'
        BY <1>5, <2>5, <2>6, <2>7, <2>8, <2>9 DEF AtHead, Good, Interim
    <2> QED BY <1>1, <1>2, <1>5, <1>6, <2>5, <2>10 DEF WholeInv, PlaceInv, AnswerWhole, Parting
<1> QED BY <1>7, <1>8

LEMMA FieldLineWhole == Clean /\ WholeInv /\ FieldLine => WholeInv'
<1> SUFFICES ASSUME Clean, WholeInv, FieldLine PROVE WholeInv'
    OBVIOUS
<1>1. HandleInv /\ HandleInv'
    BY FieldLineKeeps DEF WholeInv
<1>2. pc = "transfer" /\ wire.at = "head" /\ UNCHANGED <<opt, req, ans>>
    BY DEF FieldLine
<1>3. PICK v \in (IF wire.len = NONE THEN {Len(wire.left)} ELSE {})
                 \union (IF "bare" \in Faults THEN {BARE} ELSE {}) :
          /\ wire' = [wire EXCEPT !.len = IF v = BARE THEN @ ELSE v, !.lines = @ + 1]
          /\ pcs_http_write(Chunk("length", v))
    BY DEF FieldLine
<1>4. wire' = [hop |-> wire.hop, at |-> wire.at, code |-> wire.code, left |-> wire.left,
               len |-> IF v = BARE THEN wire.len ELSE v, lines |-> wire.lines + 1]
    BY <1>1, <1>3 DEF HandleInv, HandleType, Wires
<1>5. pc' # "idle"
    BY <1>1, NotYet
<1>6. CASE req.op = "size"
    BY <1>1, <1>2, <1>5, <1>6 DEF WholeInv, PlaceInv, AnswerWhole, Parting
<1>7. CASE req.op # "size"
    <2>1. AtHead
        BY <1>2, <1>7 DEF WholeInv, PlaceInv, Parting
    <2>2. Len(wire.left) \in 0 .. Size
        BY <1>1, LenProperties DEF HandleInv, HandleType, HopInv, Wires
    <2>3. v = BARE \/ (v = Len(wire.left) /\ wire.len = NONE)
        BY <1>3
    <2>4. v \in Length
        BY <2>2, <2>3 DEF Length, BARE
    <2> DEFINE c == Chunk("length", v)
    <2>5. HeadChunk(c) /\ Type0(c) = Base /\ Named0(c) = http.named
        BY <1>1, <1>2, <1>3, <1>7, <2>1, <2>4, HeadOnly DEF AtHead
    <2>6. /\ http'.res_type = Base /\ http'.res_body = http.res_body
          /\ http'.named = (IF http.named = NONE THEN v ELSE http.named)
          /\ UNCHANGED given /\ pc' = pc
        BY <1>1, <2>4, <2>5, HeadFields DEF HandleInv
    <2>7. Untouched' /\ Base' = Base
        BY <1>2, <2>1, <2>6 DEF AtHead, Untouched, Base
    <2>8. Wanted' = Wanted /\ Interim(wire.code)' = Interim(wire.code) /\ Good' = Good
        BY <1>2, <1>4 DEF Wanted, Interim, Good
    <2>9. wire'.left = wire.left /\ wire'.code = wire.code /\ wire'.at = "head"
          /\ wire'.len = IF v = BARE THEN wire.len ELSE v
        BY <1>2, <1>4
    <2>10. wire'.len \in {NONE, Len(wire.left)}
        BY <2>1, <2>3, <2>9 DEF AtHead
    <2>11. http'.named \in {wire'.len, BARE}
        BY <2>1, <2>2, <2>3, <2>6, <2>9 DEF AtHead, NONE, BARE
    <2>12. AtHead'
        BY <2>1, <2>6, <2>7, <2>8, <2>9, <2>10, <2>11 DEF AtHead
    <2> QED BY <1>1, <1>2, <1>5, <2>6, <2>9, <2>12 DEF WholeInv, PlaceInv, AnswerWhole, Parting
<1> QED BY <1>6, <1>7

LEMMA BlankLineWhole == Clean /\ WholeInv /\ BlankLine => WholeInv'
<1> SUFFICES ASSUME Clean, WholeInv, BlankLine PROVE WholeInv'
    OBVIOUS
<1>1. HandleInv /\ HandleInv'
    BY BlankLineKeeps DEF WholeInv
<1>2. /\ pc = "transfer" /\ wire.at = "head" /\ UNCHANGED <<opt, req, ans>>
      /\ pcs_http_write(Chunk("blank", 0))
    BY DEF BlankLine
<1>3. wire' = [hop |-> IF Interim(wire.code) THEN wire.hop + 1 ELSE wire.hop,
               at |-> IF Interim(wire.code) THEN "status" ELSE "body", code |-> wire.code,
               left |-> IF req.op = "size" THEN <<>> ELSE wire.left,
               len |-> wire.len, lines |-> wire.lines]
    BY <1>1 DEF BlankLine, HandleInv, HandleType, Wires
<1>4. pc' # "idle"
    BY <1>1, NotYet
<1>5. CASE req.op = "size"
    BY <1>1, <1>2, <1>4, <1>5 DEF WholeInv, PlaceInv, AnswerWhole, Parting
<1>6. CASE req.op # "size"
    <2> DEFINE c == Chunk("blank", 0)
    <2>1. AtHead
        BY <1>2, <1>6 DEF WholeInv, PlaceInv, Parting
    <2>2. 0 \in Length
        BY DEF Length, BARE
    <2>3. HeadChunk(c) /\ Type0(c) = Base /\ Named0(c) = http.named
        BY <1>1, <1>2, <1>6, <2>1, <2>2, HeadOnly DEF AtHead
    <2>4. /\ http'.res_type = Base + 1 /\ http'.res_body = http.res_body
          /\ http'.res_content_length = http.named
          /\ UNCHANGED given /\ pc' = IF http.named = BARE THEN "stuck" ELSE pc
        BY <1>1, <2>2, <2>3, HeadFields DEF HandleInv
    <2>5. Untouched' /\ Base' = Base
        BY <1>2, <2>1, <2>4 DEF AtHead, Untouched, Base
    <2>6. CASE pc' = "stuck"
        BY <1>1, <1>4, <2>6 DEF WholeInv, PlaceInv, AnswerWhole, Parting
    <2>7. CASE pc' # "stuck" /\ Interim(wire.code)
        <3>1. wire'.at = "status" /\ wire'.hop # 0
            BY <1>1, <1>3, <2>7 DEF HandleInv, HandleType, Wires
        <3>2. AtStatus'
            BY <2>4, <2>5, <3>1 DEF AtStatus
        <3> QED BY <1>1, <1>2, <1>4, <2>4, <2>7, <3>1, <3>2 DEF WholeInv, PlaceInv, AnswerWhole, Parting
    <2>8. CASE pc' # "stuck" /\ ~ Interim(wire.code)
        <3>1. wire'.at = "body" /\ wire'.left = wire.left /\ wire'.code = wire.code
            BY <1>3, <1>6, <2>8
        <3>2. http'.res_content_length \in {NONE, Len(wire.left)}
            BY <2>1, <2>4, <2>8 DEF AtHead
        <3>3. Got' = <<>> /\ Len(<<>>) = 0 /\ given'.told = {}
            BY <2>5, EmptySeq DEF Untouched, Got, Nothing
        <3>4. Len(Got') + Len(wire'.left) = Len(wire.left)
            <4>1. Len(wire.left) \in Nat
                BY <1>1, LenProperties DEF HandleInv, HandleType, Wires
            <4> QED BY <3>1, <3>3, <4>1
        <3>5. Good => \/ wire'.left = <<>> /\ Got' = <<>>
                      \/ \E k \in req.from .. Last + 1 :
                            wire'.left = Run(k, Last) /\ Got' = Run(req.from, k - 1)
            <4>1. Good => wire.left \in {<<>>, Wanted}
                BY <2>1 DEF AtHead
            <4>2. req.from \in req.from .. Last + 1 /\ Wanted = Run(req.from, Last)
                BY <1>1, WantedRun
            <4>3. Run(req.from, req.from - 1) = <<>>
                BY <1>1, WantedRun, RunEmpty
            <4> QED BY <3>1, <3>3, <4>1, <4>2, <4>3
        <3>6. Good' = Good /\ Last' = Last /\ req' = req
            BY <1>2, <3>1 DEF Good, Last
        <3>7. AtBody'
            BY <2>4, <2>5, <3>2, <3>3, <3>4, <3>5, <3>6 DEF AtBody
        <3> QED BY <1>1, <1>2, <1>4, <2>4, <2>8, <3>1, <3>7 DEF WholeInv, PlaceInv, AnswerWhole, Parting
    <2> QED BY <2>6, <2>7, <2>8
<1> QED BY <1>5, <1>6

\* A block that is there moves from the wire to where the blocks are gathered.
LEMMA BlockTaken ==
    ASSUME Clean, HandleInv, Block, http.res_type = Base + 1, req.op # "size"
    PROVE  \/ pc' = "failed"
           \/ /\ pc' = pc /\ Got' = Append(Got, Head(wire.left))
              /\ http'.res_type = http.res_type
              /\ http'.res_content_length = http.res_content_length
              /\ given'.told \subseteq given.told \union {http.res_content_length}
<1> DEFINE v == Head(wire.left)
           c == Chunk("block", v)
<1>1. /\ pc = "transfer" /\ UNCHANGED <<opt, req, ans>> /\ pcs_http_write(c)
    BY DEF Block
<1>2. c.kind = "block" /\ c.value = v
    BY DEF Chunk
<1>3. http \in Structs /\ (http.res_type = 7 <=> req.op = "download")
    BY <1>1, PartType
<1>4. ~ InHead(c)
    <2>1. InBody
        BY <1>1, PartType
    <2>2. ~ LooksLikeStatus(c)
        BY <1>2 DEF LooksLikeStatus, Clean
    <2> QED BY <2>1, <2>2 DEF InHead, Again
<1> HIDE DEF c, v
<1>5. BodyChunk(c) \/ GivenChunk(c) \/ NoFunction(c)
    BY <1>1, <1>4 DEF pcs_http_write, HeadChunk
<1>6. CASE BodyChunk(c)
    <2>1. http' = [http EXCEPT !.res_body = Append(@, v)] /\ UNCHANGED <<given, pc>>
        BY <1>2, <1>6 DEF BodyChunk
    <2>2. /\ http'.res_body = Append(http.res_body, v) /\ http'.res_type = http.res_type
          /\ http'.res_content_length = http.res_content_length
        BY <1>3, <2>1 DEF Structs
    <2>3. req.op # "download"
        BY <1>3, <1>6 DEF BodyChunk, DOWNLOAD
    <2> QED BY <1>1, <2>1, <2>2, <2>3 DEF Got, v
<1>7. CASE GivenChunk(c)
    <2>1. req.op = "download"
        BY <1>3, <1>7 DEF GivenChunk, DOWNLOAD
    <2>2. CASE given' = [blocks |-> Append(given.blocks, v),
                         told |-> given.told \union {http.res_content_length}]
               /\ UNCHANGED <<http, pc>>
        BY <1>1, <2>1, <2>2 DEF Got, v
    <2>3. CASE pc' = "failed"
        BY <2>3
    <2> QED BY <1>2, <1>7, <2>2, <2>3 DEF GivenChunk
<1>8. CASE NoFunction(c)
    BY <1>8 DEF NoFunction
<1> QED BY <1>5, <1>6, <1>7, <1>8

LEMMA BlockWhole == Clean /\ WholeInv /\ Block => WholeInv'
<1> SUFFICES ASSUME Clean, WholeInv, Block PROVE WholeInv'
    OBVIOUS
<1>1. HandleInv /\ HandleInv'
    BY BlockKeeps DEF WholeInv
<1>2. /\ pc = "transfer" /\ wire.at = "body" /\ wire.left # <<>> /\ UNCHANGED <<opt, req, ans>>
    BY DEF Block
<1>3. wire' = [hop |-> wire.hop, at |-> wire.at, code |-> wire.code, left |-> Tail(wire.left),
               len |-> wire.len, lines |-> wire.lines]
    BY <1>1 DEF Block, HandleInv, HandleType, Wires
<1>4. pc' # "idle"
    BY <1>1, NotYet
<1>5. CASE req.op = "size" \/ pc' = "failed"
    BY <1>1, <1>2, <1>4, <1>5, <1>3 DEF WholeInv, PlaceInv, AnswerWhole, Parting
<1>6. CASE req.op # "size" /\ pc' # "failed"
    <2>1. AtBody
        BY <1>2, <1>6 DEF WholeInv, PlaceInv, Parting
    <2>2. /\ pc' = pc /\ Got' = Append(Got, Head(wire.left))
          /\ http'.res_type = http.res_type
          /\ http'.res_content_length = http.res_content_length
          /\ given'.told \subseteq given.told \union {http.res_content_length}
        BY <1>1, <1>6, <2>1, BlockTaken DEF AtBody
    <2>3. wire.left \in Seq(0 .. Size) /\ Got \in Seq(Length)
        BY <1>1 DEF HandleInv, HandleType, Wires, Structs, Givens, Got
    <2>4. Len(Got') + Len(wire'.left) = Len(Got) + Len(wire.left)
        <3>1. Head(wire.left) \in 0 .. Size /\ Len(wire'.left) = Len(wire.left) - 1
            BY <1>2, <1>3, <2>3, HeadTailProperties
        <3>2. Head(wire.left) \in Length
            BY <3>1 DEF Length, BARE
        <3>3. Len(Got') = Len(Got) + 1
            BY <2>2, <2>3, <3>2, AppendProperties
        <3>4. Len(Got) \in Nat /\ Len(wire.left) \in Nat
            BY <2>3, LenProperties
        <3>5. Len(Got') + Len(wire'.left) = (Len(Got) + 1) + (Len(wire.left) - 1)
            BY <3>1, <3>3, Zenon
        <3>6. \A a, b \in Nat : (a + 1) + (b - 1) = a + b
            OBVIOUS
        <3> QED BY <3>4, <3>5, <3>6, Zenon
    <2>5. Base' = Base /\ Good' = Good /\ Last' = Last
        BY <1>2, <1>3 DEF Base, Good, Last
    <2>6. Good => \E k \in req.from .. Last + 1 :
                    wire'.left = Run(k, Last) /\ Got' = Run(req.from, k - 1)
        <3> SUFFICES ASSUME Good
                     PROVE  \E k \in req.from .. Last + 1 :
                              wire'.left = Run(k, Last) /\ Got' = Run(req.from, k - 1)
            OBVIOUS
        <3>1. PICK k \in req.from .. Last + 1 :
                wire.left = Run(k, Last) /\ Got = Run(req.from, k - 1)
            BY <1>2, <2>1 DEF AtBody
        <3>2. req.from \in Nat /\ Last \in -1 .. Size - 1
            BY <1>1, WantedRun
        <3>3. k # Last + 1
            <4>1. Last + 1 \in Nat /\ (Last + 1) - 1 = Last
                BY <3>2
            <4>2. Run(Last + 1, (Last + 1) - 1) = <<>>
                BY <4>1, RunEmpty
            <4> QED BY <1>2, <3>1, <4>1, <4>2
        <3>4. k \in Nat /\ k <= Last /\ k \in -1 .. Size - 1 /\ req.from <= k
            BY <3>1, <3>2, <3>3
        <3>5. Head(Run(k, Last)) = k /\ Tail(Run(k, Last)) = Run(k + 1, Last)
            BY <3>2, <3>4, RunHead
        <3>6. Append(Run(req.from, k - 1), k) = Run(req.from, k)
            BY <3>2, <3>4, RunAppend
        <3>7. wire'.left = Run(k + 1, Last) /\ Got' = Run(req.from, (k + 1) - 1)
            <4>1. (k + 1) - 1 = k
                BY <3>4
            <4> QED BY <1>3, <2>2, <3>1, <3>5, <3>6, <4>1
        <3>8. k + 1 \in req.from .. Last + 1
            BY <3>2, <3>4
        <3> QED BY <3>7, <3>8
    <2>7. AtBody'
        BY <1>2, <2>1, <2>2, <2>4, <2>5, <2>6 DEF AtBody
    <2>8. wire'.at = "body" /\ pc' = "transfer"
        BY <1>2, <1>3, <2>2
    <2> QED BY <1>1, <2>7, <2>8 DEF WholeInv, PlaceInv, AnswerWhole, Parting
<1> QED BY <1>5, <1>6

LEMMA EndWhole == Clean /\ WholeInv /\ (Finish \/ Break) => WholeInv'
<1> SUFFICES ASSUME Clean, WholeInv, Finish \/ Break PROVE WholeInv'
    OBVIOUS
<1>1. HandleInv'
    BY EndKeeps DEF WholeInv
<1>2. pc = "transfer" /\ pc' \in {"done", "failed"} /\ UNCHANGED <<http, opt, req, wire, given, ans>>
    BY DEF Finish, Break
<1>3. AtBody' = AtBody
    BY <1>2 DEF AtBody, Got, Base, Good, Last
<1>4. pc' = "done" => wire.at = "body" /\ wire.left = <<>>
    BY DEF Finish, Break, Clean
<1>5. PlaceInv'
    BY <1>2, <1>3, <1>4 DEF WholeInv, PlaceInv, Parting
<1> QED BY <1>1, <1>2, <1>5 DEF WholeInv, AnswerWhole

\* A request that ended well has got all, or an empty body.
LEMMA GotAll ==
    ASSUME WholeInv, pc = "done", Good, req.op # "size"
    PROVE  Got \in {Wanted, <<>>} /\ given.told \subseteq {NONE, Len(Got)}
<1>1. AtBody /\ wire.left = <<>>
    BY DEF WholeInv, PlaceInv, Parting
<1>2. Got \in Seq(Length)
    BY DEF WholeInv, HandleInv, HandleType, Structs, Givens, Got
<1>3. Len(Got) + Len(wire.left) = Len(Got)
    <2>1. Len(Got) \in Nat /\ Len(<<>>) = 0
        BY <1>2, LenProperties, EmptySeq
    <2> QED BY <1>1, <2>1
<1>4. ASSUME NEW k \in req.from .. Last + 1, wire.left = Run(k, Last), Got = Run(req.from, k - 1)
      PROVE  Got = Wanted
    <2>1. req.from \in Nat /\ Last \in -1 .. Size - 1 /\ Wanted = Run(req.from, Last)
        BY WantedRun DEF WholeInv
    <2>2. k \in Nat /\ k <= Last + 1
        BY <2>1
    <2>3. k = Last + 1
        <3>1. k <= Last => Run(k, Last) # <<>>
            BY <2>1, <2>2, RunHead
        <3> QED BY <1>1, <1>4, <2>1, <2>2, <3>1
    <2>4. k - 1 = Last
        BY <2>1, <2>3
    <2> QED BY <1>4, <2>1, <2>4
<1> QED BY <1>1, <1>3, <1>4 DEF AtBody

LEMMA ReturnWhole == Clean /\ WholeInv /\ (pcs_http_perform \/ DownloadFilesize) => WholeInv'
<1> SUFFICES ASSUME Clean, WholeInv, pcs_http_perform \/ DownloadFilesize PROVE WholeInv'
    OBVIOUS
<1>1. HandleInv /\ HandleInv'
    BY ReturnKeeps DEF WholeInv
<1>2. pc' = "idle" /\ UNCHANGED <<opt, req, wire, given>>
    BY DEF pcs_http_perform, DownloadFilesize
<1>3. PlaceInv'
    BY <1>2 DEF PlaceInv, Parting
<1>4. CASE DownloadFilesize
    BY <1>1, <1>2, <1>3, <1>4 DEF WholeInv, AnswerWhole, DownloadFilesize
<1>5. CASE pcs_http_perform
    <2>1. pc \in {"done", "failed"} /\ req.op # "size"
        BY <1>5 DEF pcs_http_perform
    <2>2. http'.res_body = http.res_body
        BY <1>1, <1>5, PerformFields DEF HandleInv
    <2>3. ans' = "value" => pc = "done" /\ Good /\ http.res_body # <<>> /\ req.op # "download"
        BY <1>1, <1>5, PerformFields DEF HandleInv, Good
    <2>4. ans' = "true" => pc = "done" /\ Good /\ req.op = "download"
        BY <1>1, <1>5, <2>1, PerformFields DEF HandleInv, Good
    <2>5. Wanted' = Wanted
        BY <1>2 DEF Wanted
    <2>6. ans' = "value" => http'.res_body = Wanted'
        BY <2>1, <2>2, <2>3, <2>5, GotAll DEF Got
    <2>7. ans' = "true" => /\ given'.blocks \in {Wanted', <<>>}
                           /\ given'.told \subseteq {NONE, Len(given'.blocks)}
        BY <1>2, <2>1, <2>4, <2>5, GotAll DEF Got
    <2> QED BY <1>1, <1>3, <2>6, <2>7 DEF WholeInv, AnswerWhole
<1> QED BY <1>4, <1>5

LEMMA WholeStep == Clean /\ WholeInv /\ [Next]_vars => WholeInv'
<1> SUFFICES ASSUME Clean, WholeInv, [Next]_vars PROVE WholeInv'
    OBVIOUS
<1>1. HandleInv /\ HandleInv'
    BY HandleStep DEF WholeInv
<1>2. CASE pcs_http_create \/ pcs_http_destroy
    BY <1>1, <1>2 DEF pcs_http_create, pcs_http_destroy, WholeInv, PlaceInv, Parting, AnswerWhole
<1>3. CASE pcs_http_setopt
    <2>1. http'.res_body = http.res_body
        BY <1>1, <1>3 DEF pcs_http_setopt, HandleInv, HandleType, Structs
    <2> QED BY <1>1, <1>3, <2>1
            DEF pcs_http_setopt, WholeInv, PlaceInv, Parting, AnswerWhole, Wanted
<1>4. CASE pcs_http_get_cookie
    <2>1. ans' \in {"cookie", "null", "freed"} /\ pc' = "idle"
        BY <1>4 DEF pcs_http_get_cookie
    <2> QED BY <1>1, <2>1 DEF WholeInv, PlaceInv, Parting, AnswerWhole
<1>5. CASE UNCHANGED hvars
    <2>1. /\ UNCHANGED <<http, req, wire, given, pc, ans>>
          /\ Base' = Base /\ Got' = Got /\ Good' = Good /\ Last' = Last /\ Wanted' = Wanted
          /\ Interim(wire.code)' = Interim(wire.code) /\ Untouched' = Untouched
        BY <1>5 DEF hvars, Base, Got, Good, Last, Wanted, Interim, Untouched
    <2>2. AtStatus' = AtStatus /\ AtHead' = AtHead /\ AtBody' = AtBody
        BY <2>1 DEF AtStatus, AtHead, AtBody
    <2> QED BY <1>1, <2>1, <2>2 DEF WholeInv, PlaceInv, Parting, AnswerWhole
<1> QED BY <1>2, <1>3, <1>4, <1>5, RequestWhole, StatusLineWhole, FieldLineWhole, BlankLineWhole,
           BlockWhole, EndWhole, ReturnWhole DEF Next, HttpNext, Transfer, vars

\* From servers that speak HTTP/1 and tell a cut body, a call that succeeds
\* has got exactly the blocks it asked for, once and in order, for a file of
\* any size, any range and any number of redirections before; and the write
\* function was told no other length than that of this answer.
THEOREM AnswersWhole ==
    ASSUME Clean
    PROVE  Spec => []AnswerWhole
<1>1. Init => WholeInv
    BY InitHandleInv DEF WholeInv, PlaceInv, Parting, AnswerWhole, Init
<1>2. WholeInv /\ [Next]_vars => WholeInv'
    BY WholeStep
<1>3. WholeInv => AnswerWhole
    BY DEF WholeInv
<1> QED BY <1>1, <1>2, <1>3, PTL DEF Spec

=============================================================================
