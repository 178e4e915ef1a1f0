----------------------------- MODULE ProxyAddr -----------------------------
(***************************************************************************)
(* Which address a request is attributed to: the TCP peer's, unless the    *)
(* peer is a trusted proxy, when the PROXY protocol header it prefixes to  *)
(* the stream, and then the forwarding headers, may name another.  An      *)
(* address is a family and a number of AddrBits bits; a mapped one is an   *)
(* IPv4 address seen on a dual-stack socket.                               *)
(***************************************************************************)
EXTENDS Integers, Sequences, SequencesExt, FiniteSets

CONSTANTS
    AddrBits,
    Addresses,     \* a set of [v : {4, 6, 46}, n : 0..2^AddrBits - 1]
    EntryChoices,  \* trusted_proxies settings: sets of [v : {4, 6}, n, prefix]
    Preambles,     \* what a peer may send before HTTP: see ParseResult
    Chains         \* forwarding header values: sequences of addresses, <<>> for an entry that is no address

Address == [v : {4, 6, 46}, n : Nat]
Hop == {h \in Seq(Address) : Len(h) <= 1}

\* A header names at most one address; plain HTTP names none.  The last part is arithmetic that provers lack.
ASSUME ProxyAssumption ==
    /\ Addresses \subseteq Address
    /\ \A c \in EntryChoices : c \subseteq [v : {4, 6}, n : Nat, prefix : Int]
    /\ \A p \in Preambles : p.ver \in 0..2 /\ p.src \in Hop /\ (p.ver = 0 => p.src = <<>>)
    /\ \A c \in Chains : c \in Seq(Hop)
    /\ AddrBits \in Nat /\ \A b \in 0..AddrBits : 2^b \in Nat \ {0}

VARIABLES
    entries,       \* ipv4_ and ipv6_ of TrustedProxyList, after configure
    proxy_protocol, reverse_proxy,
    peer,          \* <<>> before accept
    preamble,      \* the cells the peer sends first
    pbuf,          \* cells received
    left,          \* cells still to come
    remote_addr, proxy_protocol_parsed,
    request_addr   \* <<>>, then the request's remote_addr

paVars == <<entries, proxy_protocol, reverse_proxy, peer, preamble, pbuf, left, remote_addr, proxy_protocol_parsed,
            request_addr>>

-----------------------------------------------------------------------------
(* TrustedProxyList. *)
\* configure drops an entry whose prefix is out of range; the rest keep the network they name.
Valid(e) == e.prefix \in 0..AddrBits

\* A prefix of 0 matches every address of the family.
PrefixMatch(n, e) == n \div 2^(AddrBits - e.prefix) = e.n \div 2^(AddrBits - e.prefix)

\* A mapped IPv4 address is tried against the IPv6 rules, as another number, and against the IPv4 rules.
is_trusted(a) == \E e \in entries : e.v = (IF a.v = 6 THEN 6 ELSE 4) /\ PrefixMatch(a.n, e)

\* Right to left, skipping proxies; the leftmost when all are trusted; a single address is taken as it is.
extract_forwarded_ip(chain) ==
    LET ok == {i \in DOMAIN chain : chain[i] # <<>>}
        far == {i \in ok : ~is_trusted(chain[i][1])}
    IN  IF Len(chain) = 0 THEN <<>>
        ELSE IF Len(chain) = 1 \/ far = {} THEN chain[1]
        ELSE chain[CHOOSE i \in far : \A j \in far : j <= i]

-----------------------------------------------------------------------------
(* The PROXY protocol.  A preamble is [ver, src, cells]: version 1 or 2     *)
(* headers arrive as a fragment of the magic, the magic and the rest;       *)
(* version 0 is plain HTTP; src is <<>> for LOCAL, UNKNOWN and AF_UNSPEC.   *)
NoHeader == [more |-> FALSE, addr |-> <<>>, len |-> 0]
NeedMore == [NoHeader EXCEPT !.more = TRUE]

parse_v1(p, n) == IF n < 3 THEN NeedMore ELSE [more |-> FALSE, addr |-> p.src, len |-> 3]
parse_v2_short(p, n) == [more |-> FALSE, addr |-> p.src, len |-> n]

\* The fixed part first, then as many bytes as it announces.
parse_v2(p, n) == IF n < 3 THEN NeedMore ELSE [more |-> FALSE, addr |-> p.src, len |-> 3]

parse_proxy_protocol(p, n) ==
    CASE n = 0 -> NeedMore
      [] n > 0 /\ p.ver = 0 -> NoHeader
      [] n > 0 /\ p.ver = 1 -> parse_v1(p, n)
      [] n > 0 /\ p.ver = 2 -> parse_v2(p, n)

HeaderCells(p) == IF p.ver = 0 THEN 0 ELSE 3

-----------------------------------------------------------------------------
PaInit ==
    /\ \E c \in EntryChoices : entries = {e \in c : Valid(e)}
    /\ proxy_protocol \in BOOLEAN /\ reverse_proxy \in BOOLEAN
    /\ peer = <<>> /\ preamble = <<>> /\ pbuf = 0 /\ left = 0 /\ remote_addr = <<>> /\ proxy_protocol_parsed = FALSE
    /\ request_addr = <<>>

PeerConnects(a, p) ==
    /\ peer = <<>> /\ peer' = <<a>> /\ remote_addr' = <<a>> /\ preamble' = <<p>>
    /\ left' = HeaderCells(p) + 1
    /\ UNCHANGED <<entries, proxy_protocol, reverse_proxy, pbuf, proxy_protocol_parsed, request_addr>>

\* n more cells are read; the header is looked for once, and only from a trusted peer.
BytesArrive(n) ==
    /\ n \in 1..left /\ left' = left - n
    /\ LET held == pbuf + n
           looks == proxy_protocol /\ ~proxy_protocol_parsed /\ is_trusted(remote_addr[1])
           pp == parse_proxy_protocol(preamble[1], held)
       IN  IF looks
           THEN /\ proxy_protocol_parsed' = ~pp.more
                /\ pbuf' = held - pp.len
                /\ remote_addr' = IF pp.addr # <<>> THEN pp.addr ELSE remote_addr
           ELSE proxy_protocol_parsed' = TRUE /\ pbuf' = held /\ UNCHANGED remote_addr
    /\ UNCHANGED <<entries, proxy_protocol, reverse_proxy, peer, preamble, request_addr>>

\* The request is complete and its remote_addr filled in; header_priority has one header here.
Forwarded(chain) ==
    IF reverse_proxy /\ is_trusted(remote_addr[1]) /\ extract_forwarded_ip(chain) # <<>>
    THEN extract_forwarded_ip(chain) ELSE remote_addr

DispatchFrom(chain) ==
    /\ peer # <<>> /\ left = 0 /\ request_addr = <<>> /\ request_addr' = Forwarded(chain)
    /\ UNCHANGED <<entries, proxy_protocol, reverse_proxy, peer, preamble, pbuf, left, remote_addr,
                   proxy_protocol_parsed>>

PaNext ==
    \/ \E a \in Addresses, p \in Preambles : PeerConnects(a, p)
    \/ \E n \in 1..4 : BytesArrive(n)
    \/ \E c \in Chains : DispatchFrom(c)

PaSpec == PaInit /\ [][PaNext]_paVars

\* A peer that no configured network contains is known by its own address, whatever it sends; networks are
\* compared here by the span of addresses they contain.
InSpan(n, e) == \E base \in {e.n - (e.n % 2^(AddrBits - e.prefix))} : base <= n /\ n < base + 2^(AddrBits - e.prefix)
UntrustedKeepsItsAddress ==
    (request_addr # <<>> /\ \A e \in entries : ~(e.v = (IF peer[1].v = 6 THEN 6 ELSE 4) /\ InSpan(peer[1].n, e)))
        => request_addr = peer

\* Of a trusted peer's header every byte is consumed and its client address taken, however the reads split it.
SplitsDoNotMatter ==
    (peer # <<>> /\ left = 0 /\ proxy_protocol /\ \E e \in entries : e.v = (IF peer[1].v = 6 THEN 6 ELSE 4) /\ InSpan(peer[1].n, e))
        => pbuf = 1 /\ remote_addr = (IF preamble[1].src = <<>> THEN peer ELSE preamble[1].src)

\* Through a chain of proxies the request is attributed to the last hop that is not one of them: what the client
\* itself put further left in the header is never believed.
LastUntrustedHop ==
    (peer # <<>> /\ left = 0 /\ request_addr = <<>>) => \A c \in Chains : LET a == extract_forwarded_ip(c) IN
        (Len(c) > 1 /\ a # <<>>) =>
            \/ \A i \in DOMAIN c : c[i] # <<>> => is_trusted(c[i][1])
            \/ \E i \in DOMAIN c : /\ a = c[i] /\ ~is_trusted(c[i][1])
                                   /\ \A j \in (i + 1)..Len(c) : c[j] # <<>> => is_trusted(c[j][1])

\* The address a request is attributed to: its own for a peer outside the trusted networks, the header's for one inside.
AddressRight == UntrustedKeepsItsAddress /\ SplitsDoNotMatter /\ LastUntrustedHop
=============================================================================
