------------------------------ MODULE Helpers ------------------------------
(***************************************************************************)
(* The pure helpers of core/security: paths, uploaded files, outbound URLs. *)
(* Names are sequences of path components or of host labels, a file is its *)
(* size and what its first bytes say.                                      *)
(***************************************************************************)
EXTENDS Integers, Sequences, SequencesExt, FiniteSets

(* path.resolve: an absolute segment starts over, ".." leaves a directory, *)
(* and the root, which has no name, is its own parent.                     *)
Enter(path, name) ==
  IF name \in {"", "."} THEN path
  ELSE IF name = ".." THEN IF path = <<>> THEN path ELSE Front(path)
  ELSE Append(path, name)

Resolve(base, segment) ==
  LET path[i \in 0 .. Len(segment.names)] ==
        IF i = 0 THEN IF segment.absolute THEN <<>> ELSE base
        ELSE Enter(path[i - 1], segment.names[i])
  IN path[Len(segment.names)]

IsWithinUnseparated(candidate, base) ==   \* mutant
  \/ base = <<>>
  \/ /\ Len(candidate) >= Len(base) /\ IsPrefix(Front(base), candidate)
     /\ candidate[Len(base)] \in {"uploads", "uploads2"}

(* candidate = base, or base and a separator start it: a sibling's name    *)
(* that only begins like the base's does not count, and the root, which    *)
(* ends in a separator of its own, has nothing but itself.                 *)
IsWithin(candidate, base) ==
  candidate = base \/ (base # <<>> /\ IsPrefix(base, candidate))

(* No path that was resolved has this name. *)
Outside == <<"..">>

IsEmpty(segment) == ~segment.absolute /\ segment.names \in {<<>>, <<"">>}

ResolveWithinBase(base, segment) ==
  IF IsEmpty(segment) \/ segment.control THEN Outside
  ELSE LET candidate == Resolve(base, segment) IN
       IF IsWithin(candidate, base) THEN candidate ELSE Outside

-----------------------------------------------------------------------------
(* SIGNATURES: a RIFF container is a WEBP only if it says so.              *)
DetectType(start) ==
  CASE start = "png" -> "image/png"
    [] start = "jpeg" -> "image/jpeg"
    [] start = "gif" -> "image/gif"
    [] start = "riffWebp" -> "image/webp"
    [] start = "pdf" -> "application/pdf"
    [] start = "zip" -> "application/zip"
    [] OTHER -> "unknown"

DangerousLeads == {"html", "php", "shebang", "elf", "exe"}

(* The starts of a file the two tables tell apart. *)
Starts ==
  {"png", "jpeg", "gif", "riffWebp", "riffWave", "pdf", "zip", "text"} \union DangerousLeads

ValidateFileContent(file, options) ==
  IF file.size = 0 THEN "empty"
  ELSE IF file.size > options.maxBytes THEN "tooLarge"
  ELSE IF file.start \in DangerousLeads THEN "scriptable"
  ELSE IF DetectType(file.start) = "unknown" THEN "unverified"
  ELSE IF DetectType(file.start) \notin options.allowed THEN "notAllowed"
  ELSE IF options.declared \notin {"none", DetectType(file.start)} THEN "mismatch"
  ELSE "accepted"

-----------------------------------------------------------------------------
(* IPv4 addresses that are not public, by their first two octets.          *)
IsPrivateIp(a, b) ==
  \/ a \in {0, 10, 127}
  \/ a = 169 /\ b = 254
  \/ a = 172 /\ b >= 16 /\ b <= 31
  \/ a = 192 /\ b \in {0, 168}
  \/ a = 100 /\ b >= 64 /\ b <= 127
  \/ a >= 224

(* An entry of allowedHosts names a host, or with a leading dot a domain.  *)
HostAllowed(host, entries) ==
  \E e \in entries : host = e.labels \/ (e.kind = "domain" /\ IsSuffix(e.labels, host))

(* The cloud metadata hosts. *)
BlockedHosts == {<<"metadata", "google", "internal">>, <<"metadata", "goog">>}

(* assertSafeUrl with its default options but the allowlist, of which there *)
(* is at most one; addresses is what DNS answers for the host, or the       *)
(* literal address the URL has in its place.                                *)
AcceptsUrl(url, allowlists, addresses) ==
  /\ url.protocol = "https:"
  /\ ~url.credentials
  /\ url.host \notin BlockedHosts
  /\ \A entries \in allowlists : HostAllowed(url.host, entries)
  /\ Last(url.host) \notin {"localhost", "internal", "local"}
  /\ addresses # {}
  /\ \A address \in addresses : ~IsPrivateIp(address[1], address[2])

-----------------------------------------------------------------------------
Names == {"a", "..", ".", "", "uploads", "uploads2"}

Segments ==
  [absolute : BOOLEAN, control : BOOLEAN, names : UNION {[1 .. n -> Names] : n \in 0 .. 3}]

Bases == {<<"srv", "uploads">>, <<"uploads">>, <<>>}

(* The name a file is looked up under stays inside the base directory (a   *)
(* directory that begins like the base's does not count), none of its      *)
(* components leads out of it again, and a path that was accepted means    *)
(* the same when it is resolved again.                                     *)
StaysInside(base, segment) ==
  LET path == ResolveWithinBase(base, segment) IN
  path # Outside =>
    /\ \A i \in 1 .. Len(base) : i \in DOMAIN path /\ path[i] = base[i]
    /\ \A i \in DOMAIN path : path[i] \notin {"", ".", ".."}
    /\ ~segment.control
    /\ ResolveWithinBase(base, [absolute |-> TRUE, control |-> FALSE, names |-> path]) = path

PathsStayInside == \A base \in Bases, segment \in Segments : StaysInside(base, segment)

(* Each file gets the first complaint of the documented order, and only a  *)
(* file whose real type is allowed and is the declared one is accepted.    *)
FilesVouched ==
  \A start \in Starts, size \in 0 .. 2, declared \in {"none", "image/png", "application/pdf"},
     allowed \in SUBSET {"image/png", "image/webp", "application/pdf"} :
    LET file == [start |-> start, size |-> size]
        verdict == ValidateFileContent(file, [allowed |-> allowed, maxBytes |-> 1, declared |-> declared])
    IN /\ verdict = "accepted" =>
            /\ size = 1 /\ start \notin DangerousLeads
            /\ DetectType(start) \in allowed
            /\ declared = "none" \/ declared = DetectType(start)
       /\ verdict \in {"mismatch", "notAllowed"} => DetectType(start) # "unknown"
       /\ size = 2 => verdict = "tooLarge"

(* The blocks the comments name, as ranges of the first 16 bits.           *)
SpecialBlocks ==
  {<<0, 255>>, <<10 * 256, 10 * 256 + 255>>, <<127 * 256, 127 * 256 + 255>>,
   <<169 * 256 + 254, 169 * 256 + 254>>, <<172 * 256 + 16, 172 * 256 + 31>>,
   <<192 * 256 + 168, 192 * 256 + 168>>, <<192 * 256, 192 * 256>>,
   <<100 * 256 + 64, 100 * 256 + 127>>, <<224 * 256, 65535>>}

(* isPrivateIp is exactly the union of the blocks; every address DNS gives *)
(* for an accepted URL is outside them; an allowlisted domain covers its   *)
(* subdomains and no host that merely ends in the same letters.            *)
UrlsPublic ==
  /\ \A a \in 0 .. 255, b \in {0, 1, 15, 16, 31, 32, 63, 64, 127, 128, 167, 168, 169, 253, 254, 255} :
       IsPrivateIp(a, b) <=> \E block \in SpecialBlocks : block[1] <= a * 256 + b /\ a * 256 + b <= block[2]
  /\ \A addresses \in SUBSET {<<10, 1>>, <<8, 8>>, <<172, 20>>, <<172, 40>>},
       host \in {<<"example", "com">>, <<"api", "example", "com">>, <<"other", "com">>, <<"db", "internal">>},
       allowlists \in SUBSET {{[kind |-> kind, labels |-> <<"example", "com">>]} : kind \in {"host", "domain"}} :
       AcceptsUrl([protocol |-> "https:", credentials |-> FALSE, host |-> host], allowlists, addresses) =>
         /\ addresses # {} /\ addresses \subseteq {<<8, 8>>, <<172, 40>>}
         /\ host # <<"db", "internal">>
         /\ allowlists # {} =>
              \/ host = <<"example", "com">>
              \/ /\ allowlists = {{[kind |-> "domain", labels |-> <<"example", "com">>]}}
                 /\ host = <<"api", "example", "com">>
=============================================================================
