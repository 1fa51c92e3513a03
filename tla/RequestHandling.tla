-------------------------- MODULE RequestHandling --------------------------
(***************************************************************************)
(* What http_server.c makes of the requests of one connection: the data    *)
(* callbacks of llhttp, the request state of client_t they build up, and   *)
(* the response that on_message_complete chooses.                          *)
(*                                                                         *)
(* A request is a sequence of spans, each a kind and a text.  llhttp calls *)
(* back with a span, or with a fragment of it where a read() ended inside  *)
(* it: the rest follows with the next read, and may be empty when the read *)
(* ended just behind the text.  A text is a sequence of symbols that stand *)
(* for runs of bytes; names are compared without regard to case, so they   *)
(* are taken to be in lower case.  A chunked body is one span delivered in *)
(* fragments; trailers are header spans behind it.                         *)
(*                                                                         *)
(* Definitions named Fault_... are mistakes this code could have had; no   *)
(* specification uses them.  Put in the place of the definition after      *)
(* them, each breaks the property it names.                                *)
(***************************************************************************)
EXTENDS Integers, SequencesExt

CONSTANTS
    Symbol,         \* what texts are made of
    Requests,       \* the requests this peer may send
    Cuts,           \* the kinds of span that a read may end in
    Authorization, AcceptEncoding,      \* header names
    Token,          \* EXPECTED_TOKEN
    Lz4, Deflate,   \* the words looked for in Accept-Encoding
    MetricsUrl, ConfigUrl,
    Objects, OtherValues,   \* bodies that are JSON: objects, and values of other kinds
    MaxMessages     \* BOUND: requests on this connection

Text == Seq(Symbol)
Kind == {"url", "field", "value", "body"}
Span == [kind : Kind, text : Text]

\* The order in which llhttp reports spans: the URL first, a value behind each
\* name and nowhere else, at most one body; only a value may be empty.
WellFormed(r) ==
    /\ r \in Seq(Span) /\ r # <<>>
    /\ \A i \in 1 .. Len(r) :
          /\ r[i].kind = "url" <=> i = 1
          /\ r[i].kind = "value" <=> i > 1 /\ r[i - 1].kind = "field"
          /\ r[i].kind # "value" => r[i].text # <<>>
          /\ r[i].kind = "field" => i < Len(r)
          /\ \A j \in 1 .. Len(r) : r[i].kind = "body" /\ r[j].kind = "body" => i = j

ASSUME RequestsAssumption == \A r \in Requests : WellFormed(r)
ASSUME CutsAssumption == Cuts \subseteq Kind
ASSUME TextsAssumption ==
    /\ {Authorization, AcceptEncoding, Token, Lz4, Deflate} \subseteq Text \ {<<>>}
    /\ {MetricsUrl, ConfigUrl} \subseteq Text \ {<<>>}
    /\ Authorization # AcceptEncoding /\ MetricsUrl # ConfigUrl
ASSUME BodiesAssumption ==
    /\ Objects \subseteq Text \ {<<>>} /\ OtherValues \subseteq Text \ {<<>>}
    /\ Objects \cap OtherValues = {}
ASSUME BoundAssumption == MaxMessages \in Nat

VARIABLES
    url, body, field,           \* url, body, current_header_field; <<>> if NULL
    hasAuth, authValid,         \* has_auth_header, auth_valid
    acceptLz4, acceptDeflate,   \* accept_lz4, accept_deflate
    req,        \* the message llhttp is inside, <<>> between messages
    at, seen,   \* its current span, and how much of it has been delivered
    cut,        \* HISTORY: a header of this message came in fragments
    answer,     \* HISTORY: what send_response was last called with
    total, drops                \* total_requests, rate_limit_drops

flags      == <<hasAuth, authValid, acceptLz4, acceptDeflate>>
clientVars == <<url, body, field, flags>>
parseVars  == <<req, at, seen, cut>>
vars       == <<clientVars, parseVars, answer, total, drops>>

\* A response: what it is, the object it gives back, what its bytes are coded
\* as, and what the Content-Encoding header calls them.
Plain(status, page) ==
    [status |-> status, page |-> page, body |-> <<>>, payload |-> "none",
     encoding |-> "none"]

TypeOK ==
    /\ url \in Text /\ body \in Text /\ field \in Text
    /\ hasAuth \in BOOLEAN /\ authValid \in BOOLEAN
    /\ acceptLz4 \in BOOLEAN /\ acceptDeflate \in BOOLEAN
    /\ req \in Requests \cup {<<>>}
    /\ at \in 1 .. Len(req) + 1
    /\ seen \in IF at <= Len(req) THEN 0 .. Len(req[at].text) ELSE {0}
    /\ cut \in BOOLEAN
    /\ total \in Nat /\ drops \in Nat

\* calloc in http_server_accept_connection; metrics_init.
Init ==
    /\ url = <<>> /\ body = <<>> /\ field = <<>>
    /\ hasAuth = FALSE /\ authValid = FALSE
    /\ acceptLz4 = FALSE /\ acceptDeflate = FALSE
    /\ req = <<>> /\ at = 1 /\ seen = 0 /\ cut = FALSE
    /\ answer = Plain(0, "none") /\ total = 0 /\ drops = 0

-----------------------------------------------------------------------------
(* Helpers *)

\* strstr: word occurs in text.
Has(text, word) ==
    \E i \in 0 .. Len(text) - Len(word) : SubSeq(text, i + 1, i + Len(word)) = word

Fault_SpanGoesOn(kind, n, over) ==      \* TypeOK: the span is not closed
    /\ req # <<>> /\ at <= Len(req) /\ req[at].kind = kind
    /\ n \in 0 .. Len(req[at].text) - seen
    /\ over \/ n > 0
    /\ at' = IF over THEN at + 1 ELSE at
    /\ seen' = seen + n
    /\ UNCHANGED <<req, cut, answer, total, drops>>

\* llhttp calls back for n more symbols of the current span; it is over, or the
\* read ended inside it or just behind it. (llhttp counts the bytes of a body,
\* so it knows its end without seeing what follows.)
Fragment(kind, n, over) ==
    /\ req # <<>> /\ at <= Len(req) /\ req[at].kind = kind
    /\ LET left == Len(req[at].text) - seen IN
          /\ n \in 0 .. left
          /\ IF over THEN n = left ELSE n > 0 /\ kind \in Cuts
          /\ kind = "body" /\ n = left => over
    /\ at' = IF over THEN at + 1 ELSE at
    /\ seen' = IF over THEN 0 ELSE seen + n
    /\ cut' = (cut \/ (~over /\ kind \in {"field", "value"}))
    /\ UNCHANGED <<req, answer, total, drops>>

Delivered(n) == SubSeq(req[at].text, seen + 1, seen + n)
Sizes == IF req # <<>> /\ at <= Len(req) THEN 0 .. Len(req[at].text) ELSE {}

-----------------------------------------------------------------------------
(* The callbacks *)

Fault_KeepsFlags ==     \* AnswerIsRight: flags of the request before
    /\ url' = <<>> /\ body' = <<>> /\ field' = <<>>
    /\ UNCHANGED flags

\* on_message_begin
Forget ==
    /\ url' = <<>> /\ body' = <<>> /\ field' = <<>>
    /\ hasAuth' = FALSE /\ authValid' = FALSE
    /\ acceptLz4' = FALSE /\ acceptDeflate' = FALSE

OnMessageBegin ==
    /\ req = <<>> /\ total + drops < MaxMessages
    /\ req' \in Requests
    /\ at' = 1 /\ seen' = 0 /\ cut' = FALSE
    /\ Forget
    /\ UNCHANGED <<answer, total, drops>>

Fault_Replaces(old, piece) == piece     \* Reassembled

Extended(old, piece) == old \o piece

OnUrl ==
    \E n \in Sizes, over \in BOOLEAN :
        /\ Fragment("url", n, over)
        /\ url' = Extended(url, Delivered(n))
        /\ UNCHANGED <<body, field, flags>>

OnHeaderField ==
    \E n \in Sizes, over \in BOOLEAN :
        /\ Fragment("field", n, over)
        /\ field' = Delivered(n)
        /\ UNCHANGED <<url, body, flags>>

Fault_AnyToken(value) ==                \* GrantNeedsToken: presence is enough
    /\ hasAuth' = (hasAuth \/ field = Authorization)
    /\ authValid' = (authValid \/ field = Authorization)
    /\ UNCHANGED <<acceptLz4, acceptDeflate>>

\* on_header_value, given (a fragment of) the value of the header named field.
SetFlags(value) ==
    /\ hasAuth' = (hasAuth \/ field = Authorization)
    /\ authValid' = IF field = Authorization THEN value = Token ELSE authValid
    /\ acceptLz4' = (acceptLz4 \/ (field = AcceptEncoding /\ Has(value, Lz4)))
    /\ acceptDeflate' = (acceptDeflate \/ (field = AcceptEncoding /\ Has(value, Deflate)))

OnHeaderValue ==
    \E n \in Sizes, over \in BOOLEAN :
        /\ Fragment("value", n, over)
        /\ SetFlags(Delivered(n))
        /\ UNCHANGED <<url, body, field>>

OnBody ==
    \E n \in Sizes, over \in BOOLEAN :
        /\ Fragment("body", n, over)
        /\ body' = Extended(body, Delivered(n))
        /\ UNCHANGED <<url, field, flags>>

\* json_handler_process: an object comes back in the reply, other JSON values do
\* not; anything else, or no body at all, is an error that is told with status 200.
JsonReply ==
    CASE body \in Objects     -> [page |-> "echo", body |-> body]
      [] body \in OtherValues -> [page |-> "success", body |-> <<>>]
      [] body \notin Objects \cup OtherValues -> [page |-> "invalid", body |-> <<>>]

Encoding ==
    CASE acceptLz4 -> "lz4"
      [] ~acceptLz4 /\ acceptDeflate -> "deflate"
      [] ~acceptLz4 /\ ~acceptDeflate -> "none"

\* How the bytes that compress_payload returns are coded: NULL where the library
\* fails; without an encoding they are a copy.
CompressPayload(type, works) == IF type = "none" \/ works THEN type ELSE "NULL"

Fault_SaysChosen(coded) == Encoding     \* AnswerIsRight: whatever became of it

\* Without compressed bytes the reply goes out as it is, and says so.
Labelled(coded) == IF coded = "NULL" THEN "none" ELSE Encoding

Process(works) ==
    LET coded == CompressPayload(Encoding, works)
    IN  [status |-> 200, page |-> JsonReply.page, body |-> JsonReply.body,
         payload |-> IF coded = "NULL" THEN "none" ELSE coded,
         encoding |-> Labelled(coded)]

Respond(granted, compressed) ==
    CASE ~granted -> Plain(429, "error")
      [] granted /\ ~(hasAuth /\ authValid) -> Plain(401, "error")
      [] granted /\ hasAuth /\ authValid ->
            CASE url = MetricsUrl -> Plain(200, "metrics")
              [] url = ConfigUrl -> Plain(200, "config")
              [] url \notin {MetricsUrl, ConfigUrl} -> Process(compressed)

OnMessageComplete ==
    /\ req # <<>> /\ at > Len(req)
    /\ \E granted, compressed \in BOOLEAN :
          /\ answer' = Respond(granted, compressed)
          /\ total' = IF granted THEN total + 1 ELSE total
          /\ drops' = IF granted THEN drops ELSE drops + 1
    /\ req' = <<>> /\ at' = 1
    /\ UNCHANGED <<clientVars, seen, cut>>

-----------------------------------------------------------------------------
Next ==
    \/ OnMessageBegin \/ OnUrl \/ OnHeaderField \/ OnHeaderValue \/ OnBody
    \/ OnMessageComplete

Spec == Init /\ [][Next]_vars

-----------------------------------------------------------------------------
(* The reference: what a request asks for, read as a whole *)

Headers(r, name) == {i \in 1 .. Len(r) : r[i].kind = "field" /\ r[i].text = name}

\* The last Authorization header is the one that counts.
Authorised(r) ==
    \E i \in Headers(r, Authorization) :
        /\ r[i + 1].text = Token
        /\ \A j \in Headers(r, Authorization) : j <= i

Asks(r, word) == \E i \in Headers(r, AcceptEncoding) : Has(r[i + 1].text, word)

Encodings(r) ==
    {"none"} \cup (IF Asks(r, Lz4) THEN {"lz4"}
                   ELSE IF Asks(r, Deflate) THEN {"deflate"} ELSE {})

HasBody(r, b) ==
    IF \E i \in 1 .. Len(r) : r[i].kind = "body"
       THEN \E i \in 1 .. Len(r) : r[i].kind = "body" /\ r[i].text = b
       ELSE b = <<>>

\* What the whole body, if there is one, asks for.
RightReply(r, a) ==
    \/ /\ a.page = "echo" /\ a.body \in Objects
       /\ HasBody(r, a.body)
    \/ /\ a.page = "success" /\ a.body = <<>>
       /\ \E b \in OtherValues : HasBody(r, b)
    \/ /\ a.page = "invalid" /\ a.body = <<>>
       /\ \A b \in Objects \cup OtherValues : ~HasBody(r, b)

RightAnswer(r, a) ==
    \/ a = Plain(429, "error")
    \/ ~Authorised(r) /\ a = Plain(401, "error")
    \/ Authorised(r) /\ r[1].text = MetricsUrl /\ a = Plain(200, "metrics")
    \/ Authorised(r) /\ r[1].text = ConfigUrl /\ a = Plain(200, "config")
    \/ /\ Authorised(r) /\ r[1].text \notin {MetricsUrl, ConfigUrl}
       /\ a.status = 200 /\ RightReply(r, a)
       /\ a.encoding \in Encodings(r) /\ a.payload = a.encoding

-----------------------------------------------------------------------------
(* Correctness *)

Complete == req # <<>> /\ at > Len(req)

\* However the URL and the body are cut, and whatever was pipelined before, a
\* request whose headers come unbroken gets the answer that the request, taken
\* as a whole, asks for, labelled with an encoding it accepts and its bytes have,
\* whether the compression works or not.
AnswerIsRight == [][Complete /\ ~cut => RightAnswer(req, answer')]_vars

\* The URL and the body are put together again from any fragments.
Reassembled == Complete => url = req[1].text /\ HasBody(req, body)

EndsWith(text, end) == \E i \in 0 .. Len(text) : SubSeq(text, i + 1, Len(text)) = end

\* Cut in any way, and behind any other request, no request is taken for
\* authorised that does not end a header with the token.
GrantNeedsToken ==
    Complete /\ hasAuth /\ authValid =>
        \E i \in 1 .. Len(req) :
            /\ req[i].kind = "field"
            /\ EndsWith(req[i].text, Authorization)
            /\ EndsWith(req[i + 1].text, Token)

\* What makes these inductive. What has been delivered of span i:
SoFar(i) ==
    IF i < at THEN req[i].text
              ELSE IF i = at THEN SubSeq(req[i].text, 1, seen) ELSE <<>>

Contents ==
    /\ url = SoFar(1)
    /\ \A i \in 1 .. Len(req) : req[i].kind = "body" => body = SoFar(i)
    /\ (\A i \in 1 .. Len(req) : req[i].kind # "body") => body = <<>>

\* The name in hand ends the name that was sent, and is all of it if unbroken.
FieldRight ==
    at > 1 /\ req[at - 1].kind = "field" =>
        /\ EndsWith(req[at - 1].text, field)
        /\ ~cut => field = req[at - 1].text

HeadersWhole ==
    ~cut /\ at <= Len(req) /\ req[at].kind \in {"field", "value"} => seen = 0

\* The flags say what the headers called so, delivered up to now, say.
Before(name) == {i \in Headers(req, name) : i + 1 < at}
FlagsRight ==
    /\ hasAuth <=> Before(Authorization) # {}
    /\ authValid <=> \E i \in Before(Authorization) :
                        /\ req[i + 1].text = Token
                        /\ \A j \in Before(Authorization) : j <= i
    /\ acceptLz4 <=> \E i \in Before(AcceptEncoding) : Has(req[i + 1].text, Lz4)
    /\ acceptDeflate <=> \E i \in Before(AcceptEncoding) : Has(req[i + 1].text, Deflate)

\* A valid token was the end of a value that is over, or is a fragment of one
\* that is not, so that another fragment will be judged.
Granted ==
    \/ \E i \in 1 .. at - 2 :
          /\ req[i].kind = "field"
          /\ EndsWith(req[i].text, Authorization)
          /\ EndsWith(req[i + 1].text, Token)
    \/ at <= Len(req) /\ req[at].kind = "value" /\ field = Authorization

RequestInvariant ==
    /\ TypeOK
    /\ req # <<>> => /\ Contents /\ FieldRight /\ HeadersWhole
                     /\ ~cut => FlagsRight
                     /\ authValid => Granted

\* auth_check_token is given the value of the header (auth.h): a request is
\* authorised or not whatever reads its bytes came in.
AuthorisationIsRight == Complete => ((hasAuth /\ authValid) <=> Authorised(req))
=============================================================================
