------------------------------ MODULE SpecFetch ------------------------------
(***************************************************************************)
(* fetchSpecFromUrl of src/lib/fetch/spec-fetcher.ts: follow redirects on   *)
(* one host, read a body of limited size, all under one deadline.  ApimExport *)
(* and ApiCenterExport fetch the links they are given with it.             *)
(*                                                                         *)
(* A server answers a request with anything; `sent` counts what it has put *)
(* on the wire of the body that is being read.                             *)
(***************************************************************************)
EXTENDS Integers, Sequences, FiniteSets

CONSTANTS
  Urls,          \* links and where they may redirect to
  SafeUrls,      \* https, no userinfo, no local name: assertSafeUrlTarget
  HostOf,        \* [Urls -> host]
  MaxRedirects,
  MaxBytes

VARIABLES
  fetch,     \* "idle", "resolve", "request", "read", or how it ended
  first,     \* the URL asked for
  url,       \* currentUrl
  hop,
  body,      \* bytes received
  late,      \* the deadline has fired
  sent,      \* history: bytes the server has sent of the body
  whole      \* history: and it has sent all of them

fetchVars == <<fetch, first, url, hop, body, late, sent, whole>>

Ended == {"ok", "403", "failed"}
Fetching == fetch \in {"resolve", "request", "read"}

NoFetch ==
  /\ fetch = "idle"
  /\ first \in Urls
  /\ url = first
  /\ hop = 0
  /\ body = 0
  /\ late = FALSE
  /\ sent = 0
  /\ whole = FALSE

\* A new call has a deadline and a budget of its own.
StartFetch(u) ==
  /\ fetch' = IF u \in SafeUrls THEN "resolve" ELSE "failed"
  /\ first' = u
  /\ url' = u
  /\ hop' = 0
  /\ body' = 0
  /\ late' = FALSE
  /\ sent' = 0
  /\ whole' = FALSE

Ends(how) == fetch' = how /\ UNCHANGED <<first, url, hop, body, late, sent, whole>>

\* resolvePublicAddress: the deadline does not cut a lookup short.
Resolve ==
  /\ fetch = "resolve"
  /\ Ends("request") \/ Ends("failed")

\* A request under a fired deadline fails, and so may any other.
RequestFails == fetch = "request" /\ Ends("failed")

Answerable == fetch = "request" /\ ~ late

Redirect(u) ==
  /\ Answerable
  /\ IF hop >= MaxRedirects \/ u \notin SafeUrls \/ HostOf[u] # HostOf[url]
     THEN Ends("failed")
     ELSE /\ fetch' = "resolve"
          /\ url' = u
          /\ hop' = hop + 1
          /\ UNCHANGED <<first, body, late, sent, whole>>

Refused == Answerable /\ (Ends("403") \/ Ends("failed"))

\* 2xx; a length announced over the limit is an error at once.
Accepted ==
  /\ Answerable
  /\ Ends("read") \/ Ends("failed")

\* Mutant of Chunk: what is over the limit is cut off.
ChunkCut(n) ==
  /\ fetch = "read" /\ ~ late /\ ~ whole
  /\ sent' = sent + n
  /\ body' = IF body + n > MaxBytes THEN MaxBytes ELSE body + n
  /\ UNCHANGED <<fetch, first, url, hop, late, whole>>

Chunk(n) ==
  /\ fetch = "read" /\ ~ late /\ ~ whole
  /\ sent' = sent + n
  /\ IF body + n > MaxBytes
     THEN fetch' = "failed" /\ UNCHANGED body
     ELSE body' = body + n /\ UNCHANGED fetch
  /\ UNCHANGED <<first, url, hop, late, whole>>

\* The server has no more to send.
BodyEnds ==
  /\ fetch = "read" /\ ~ late /\ ~ whole
  /\ whole' = TRUE
  /\ fetch' = "ok"
  /\ UNCHANGED <<first, url, hop, body, late, sent>>

\* A connection that breaks, or the deadline, makes the reader throw.
ReadFails == fetch = "read" /\ Ends("failed")

Deadline ==
  /\ Fetching
  /\ ~ late
  /\ late' = TRUE
  /\ UNCHANGED <<fetch, first, url, hop, body, sent, whole>>

FetchStep ==
  \/ Resolve \/ RequestFails \/ \E u \in Urls : Redirect(u)
  \/ Refused \/ Accepted \/ \E n \in 1 .. MaxBytes : Chunk(n)
  \/ BodyEnds \/ ReadFails \/ Deadline

FetchTyped ==
  /\ fetch \in {"idle", "resolve", "request", "read"} \cup Ended
  /\ url \in Urls /\ first \in Urls
  /\ hop \in 0 .. MaxRedirects
  /\ body \in 0 .. MaxBytes
  /\ late \in BOOLEAN /\ whole \in BOOLEAN
  /\ sent \in Nat

\* A document that is returned is all that the server sent, not more than the
\* limit, came before the deadline of the whole chain of redirects, and from
\* the host that was asked.
FetchedIsWhole ==
  fetch = "ok" =>
    whole /\ body = sent /\ ~ late /\ HostOf[url] = HostOf[first]
=============================================================================
