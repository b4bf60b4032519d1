------------------------------ MODULE UrlRules ------------------------------
(***************************************************************************)
(* The rules of user-service/server.js for a URL that a user submits:      *)
(* validateUrl up to its DNS lookup, and isPrivateIp for the answer.       *)
(* Hosts are sequences of labels.  An address is given by its family and   *)
(* its head: the first two octets, also of an IPv4-mapped one, or the four *)
(* hexadecimal digits of an IPv6 address's first group ("::1" is a family  *)
(* of its own).  The text of a group has no leading zeros, so a pattern of *)
(* four digits that begins with "f" matches the full group or nothing.     *)
(***************************************************************************)
EXTENDS Integers, Sequences

CONSTANT Allowlist   \* SSRF_ALLOWLIST

BlockedHosts == {<<"localhost">>, <<"metadata", "google", "internal">>}

Octets    == 0 .. 255
Digits    == 0 .. 15
Addresses == [family : {"v4", "mapped"}, head : Octets \X Octets]
             \cup [family : {"v6"}, head : Digits \X Digits \X Digits \X Digits]
             \cup [family : {"loopback"}, head : {<<>>}]

Forms == {"missing", "unparsable", "scheme", "web"}

\* host.endsWith(`.${a}`) or host === a
EndsWith(host, a) ==
    Len(a) <= Len(host) /\ SubSeq(host, Len(host) - Len(a) + 1, Len(host)) = a

Listed(host) == \E a \in Allowlist : EndsWith(host, a)

\* validateUrl before the lookup: the first rule that the URL breaks
UrlReason(url) ==
    CASE url.form = "unparsable"     -> "INVALID_URL"
      [] url.form = "scheme"         -> "INVALID_PROTOCOL"
      [] url.host \in BlockedHosts   -> "BLOCKED_HOST"
      [] ~Listed(url.host)           -> "NOT_IN_ALLOWLIST"
      [] OTHER                       -> "none"

PrivateV4(head) ==
    \/ head[1] \in {10, 127}
    \/ head \in {<<169, 254>>, <<192, 168>>}
    \/ head[1] = 172 /\ head[2] \in 16 .. 31

\* fe[89ab]x: is link-local, f[cd]xx: is unique-local
PrivateV6(head) ==
    \/ head[1] = 15 /\ head[2] = 14 /\ head[3] \in 8 .. 11
    \/ head[1] = 15 /\ head[2] \in {12, 13}

\* (bug: an IPv4-mapped address is not unwrapped)
IsPrivateUnmapped(a) ==
    \/ a.family = "loopback"
    \/ a.family = "v4" /\ PrivateV4(a.head)
    \/ a.family = "v6" /\ PrivateV6(a.head)

IsPrivateIp(a) ==
    \/ a.family = "loopback"
    \/ a.family \in {"v4", "mapped"} /\ PrivateV4(a.head)
    \/ a.family = "v6" /\ PrivateV6(a.head)

(***************************************************************************)
(* The ranges that the rules are meant to deny, as blocks of the numbers   *)
(* that the first 16 bits of an address form: 10/8, 127/8, 169.254/16,     *)
(* 192.168/16, 172.16/12, also when mapped, fe80::/10, fc00::/7 and ::1.   *)
(***************************************************************************)
Block(first, size) == first .. (first + size - 1)

Number(a) == IF a.family = "v6"
             THEN 4096 * a.head[1] + 256 * a.head[2] + 16 * a.head[3] + a.head[4]
             ELSE 256 * a.head[1] + a.head[2]

Denied(a) ==
    \/ a.family = "loopback"
    \/ a.family = "v6" /\ Number(a) \in Block(65152, 64) \cup Block(64512, 512)
    \/ a.family \in {"v4", "mapped"} /\
         Number(a) \in Block(256 * 10, 256) \cup Block(256 * 127, 256)
                       \cup {256 * 169 + 254, 256 * 192 + 168}
                       \cup Block(256 * 172 + 16, 16)
=============================================================================
