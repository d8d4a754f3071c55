--------------------------- MODULE RequestChecks ---------------------------
(***************************************************************************)
(* cmd/edge-service/abuse.go: the checks of Detect that read nothing but   *)
(* the request.                                                            *)
(*                                                                         *)
(* A text (a body, a header's value, a path) is the set of the words in it *)
(* that some pattern looks for; a pattern is the set of its alternatives.  *)
(* The empty alternative occurs in every text, as it does for the regexp.  *)
(***************************************************************************)
EXTENDS Integers, FiniteSets

CONSTANTS
  SqlWords, XssWords,  \* sqlInjectionPattern and xssPattern
  BotWords,          \* botPatterns of checkUserAgent
  TraversalWords,    \* traversalPatterns of checkPathTraversal
  MaxRequestSize,
  HeaderThreshold    \* SuspiciousHeaderThreshold

\* The alternatives of the commandInjection pattern as it is written: between
\* \|\| and \$\( there are two bars, so an empty one is among them.
CommandWords == {";", "&&", "||", "", "$(", "%0a", "%0d"}

Matches(pattern, text) == "" \in pattern \/ pattern \cap text # {}

Injected(text) == \E p \in {SqlWords, XssWords, CommandWords} : Matches(p, text)

TooLarge(r) == r.size > MaxRequestSize

\* r.Header.Get(n): the empty text if the header is missing.
Header(r, n) == IF n \in DOMAIN r.headers THEN r.headers[n] ELSE {}

Agent(r) == Header(r, "User-Agent")

\* "odd" stands for a text over 500 bytes or with a control character.
SuspiciousUserAgent(ua) == ua = {} \/ "odd" \in ua

\* A missing User-Agent counts twice, once as missing and once as empty.
SuspiciousHeaders(r) ==
  LET count == (IF Agent(r) = {} THEN 1 ELSE 0)
             + (IF SuspiciousUserAgent(Agent(r)) THEN 1 ELSE 0)
             + Cardinality({n \in DOMAIN r.headers : Injected(r.headers[n])})
             + (IF /\ {} \notin {Header(r, "X-Forwarded-For"), Header(r, "X-Real-IP")}
                   /\ ~r.fromTrustedProxy THEN 1 ELSE 0)
  IN count >= HeaderThreshold

\* The server gives every request a body, if an empty one, so the pattern is
\* always tried.
PayloadInjection(r) == Injected(r.body)

BotAgent(r) == Agent(r) \cap BotWords # {}

PathTraversal(r) == (r.path \cup r.query) \cap TraversalWords # {}

\* Which of the five checks on the request alone detect abuse.
ContentReasons(r) ==
  {c \in {"size", "headers", "payload", "agent", "path"} :
     \/ c = "size" /\ TooLarge(r)
     \/ c = "headers" /\ SuspiciousHeaders(r)
     \/ c = "payload" /\ PayloadInjection(r)
     \/ c = "agent" /\ BotAgent(r)
     \/ c = "path" /\ PathTraversal(r)}

ProbeMethod(r) == r.method \in {"HEAD", "OPTIONS", "TRACE"}

\* The keys under which a request's source is looked up.
SourceKey(r) == <<r.tenant, r.ip>>
VelocityKey(r) == <<"velocity", r.ip>>
=============================================================================
