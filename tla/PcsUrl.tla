------------------------------- MODULE PcsUrl -------------------------------
(***************************************************************************)
(* The strings that the PCS library puts together piece by piece in        *)
(* buffers it sizes itself: the address of a request, the body of a POST   *)
(* (pcs/pcs_http.c) and a formatted text (pcs/pcs_utils.c).  Of a string   *)
(* only its length matters, and of a buffer its size.                      *)
(***************************************************************************)
EXTENDS Integers

CONSTANTS
    MaxLen,     \* longest address, name, value and text
    MaxParams,  \* parameters of one address or body
    Buffer      \* first size of a formatting buffer: 1024

ASSUME MaxLenAssumption    == MaxLen \in Nat
ASSUME MaxParamsAssumption == MaxParams \in Nat
ASSUME BufferAssumption    == Buffer \in Nat \ {0}

VARIABLE
    url         \* the string in the making, len characters in a buffer of
                \* alloc bytes; ressz and ampersand are the code's own

String(at, len, alloc, ressz, ampersand, left) ==
    [at |-> at, len |-> len, alloc |-> alloc, ressz |-> ressz,
     ampersand |-> ampersand, left |-> left]

NoUrl == String("none", 0, 1, 0, 0, 0)

NULL == -1      \* a parameter without a value

UrlInit == url = NoUrl

\* The address has no '?', ends with it, or has parameters that end without
\* '&' or with it.
Form == {"plain", "query", "open", "closed"}
Shortest(form) == CASE form = "plain" -> 0 [] form = "query" -> 1 [] OTHER -> 2

\* pcs_http_build_url_v up to its loop: the '?' is there or is appended.
BuildUrl ==
    /\ url.at = "none"
    /\ \E form \in Form, base \in 0 .. MaxLen :
          LET len == IF form = "plain" THEN base + 1 ELSE base
          IN  /\ base >= Shortest(form)
              /\ url' = String("url", len, base + 2, len,
                               IF form = "open" THEN 1 ELSE 0, MaxParams)

\* Mutant of Grown: the '&' before a parameter without a value is forgotten.
GrownForgetful(name, val) ==
    url.ressz + (IF val = NULL THEN name ELSE name + val + 2)

\* ressz while a parameter is appended: room for '&' and '='.
Grown(name, val) ==
    url.ressz + (IF val = NULL THEN name + 1 ELSE name + val + 2)

AppendParam ==
    /\ url.at = "url" /\ url.left > 0
    /\ \E name \in 1 .. MaxLen, val \in NULL .. MaxLen :
          url' = String("url",
                        url.len + url.ampersand + name + (IF val = NULL THEN 0 ELSE val + 1),
                        Grown(name, val) + 1,
                        IF url.ampersand = 1 THEN Grown(name, val) ELSE Grown(name, val) - 1,
                        1, url.left - 1)

\* pcs_http_build_post_data_v: the first parameter makes the buffer, and one
\* without a value has its '=' too.
ValueLen(val) == IF val = NULL THEN 0 ELSE val

BuildPostData ==
    /\ url.at = "none"
    /\ \E name \in 1 .. MaxLen, val \in NULL .. MaxLen :
          LET n == name + ValueLen(val) + 1
          IN  url' = String("post", n, n + 1, n, 0, MaxParams)

AppendPostData ==
    /\ url.at = "post" /\ url.left > 0
    /\ \E name \in 1 .. MaxLen, val \in NULL .. MaxLen :
          LET n == name + ValueLen(val) + 2
          IN  url' = String("post", url.len + n, url.ressz + n + 1, url.ressz + n,
                            0, url.left - 1)

\* pcs_utils_vsprintf: the buffer is doubled while the text is longer, and
\* then its end is marked.
Format ==
    /\ url.at = "none"
    /\ \E n \in 0 .. MaxLen :
          url' = String("format", 0, Buffer, n, 0, 0)

TryPrint ==
    /\ url.at = "format"
    /\ url' = IF url.ressz > url.alloc
              THEN String("format", 0, 2 * url.alloc, url.ressz, 0, 0)
              ELSE String("text", url.ressz, url.alloc, url.ressz, 0, 0)

\* The string is used and freed.
UrlDone == url.at \in {"url", "post", "text"} /\ url' = NoUrl

UrlNext ==
    \/ BuildUrl \/ AppendParam
    \/ BuildPostData \/ AppendPostData
    \/ Format \/ TryPrint
    \/ UrlDone

\* A string and the NUL that ends it stay inside the buffer they were given,
\* but for a text exactly as long as its buffer, whose end is marked one byte
\* past it (pcs_utils.c:90-101: the text is retried only when it is longer).
BufferFits ==
    url.len + 1 > url.alloc => url.at = "text" /\ url.len = url.alloc

\* ressz is the length of an address or a body at each turn of the loops.
RessizeExact == url.at \in {"url", "post"} => url.ressz = url.len

=============================================================================
