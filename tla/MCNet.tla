-------------------------------- MODULE MCNet --------------------------------
(* The network layer, one part at a time: part says which one this behaviour  *)
(* exercises; the others stay in one of their initial states.                 *)
EXTENDS HttpServer, SseHub, ProxyAddr, Poller, HttpClient, HttpPool

CONSTANT PartsToRun

VARIABLE part

mcVars == <<hsVars, seVars, paVars, poVars, hcVars, hpVars, part>>

MCReaderArea == [r \in Readers |-> IF r = "r1" THEN "court" ELSE ""]

\* Trusted networks that overlap, that name a whole family, and one whose prefix is out of range.
A4(n) == [v |-> 4, n |-> n]
Entry(v, n, p) == [v |-> v, n |-> n, prefix |-> p]
MCAddresses == {A4(1), A4(2), A4(6), [v |-> 46, n |-> 2], [v |-> 6, n |-> 2]}
MCEntries == {{}, {Entry(4, 2, 3)}, {Entry(4, 3, 2), Entry(6, 0, 9)}, {Entry(4, 5, 0), Entry(6, 2, 3)}}
MCPreambles == {[ver |-> 0, src |-> <<>>], [ver |-> 1, src |-> <<A4(5)>>], [ver |-> 2, src |-> <<A4(2)>>],
                [ver |-> 2, src |-> <<>>]}
Hops == {<<>>, <<A4(2)>>, <<A4(6)>>, <<A4(7)>>}
MCChains == UNION {[1..n -> Hops] : n \in 0..3}

Form(v, args, c) == [verb |-> v, args |-> args, chunked |-> c]
BufferedForms == {Form("Get", {"headers", "handler"}, FALSE), Form("Put", {"headers", "body"}, FALSE), Form("Post", {"provider"}, FALSE)}
StreamForms == {Form("Get", {}, FALSE), Form("Get", {"receiver"}, FALSE)}

MCInit ==
    /\ part \in PartsToRun
    /\ SeInit /\ PoInit /\ HcInit /\ HpInit
    /\ HsInit /\ (part # "http_server" => completion)
    /\ PaInit /\ (part # "proxy" => entries = {} /\ proxy_protocol /\ reverse_proxy)

Others(p) ==
    /\ p # "http_server" => UNCHANGED hsVars
    /\ p # "sse" => UNCHANGED seVars
    /\ p # "proxy" => UNCHANGED paVars
    /\ p # "poller" => UNCHANGED poVars
    /\ p # "http_client" => UNCHANGED hcVars
    /\ p # "http_pool" => UNCHANGED hpVars

MCNext ==
    /\ UNCHANGED part
    /\ \/ part = "http_server" /\ HsNext
       \/ part = "sse" /\ SeNext
       \/ part = "proxy" /\ PaNext
       \/ part = "poller" /\ PoNext
       \/ part = "http_client" /\ HcNext
       \/ part = "http_pool" /\ HpNext
    /\ Others(part)

MCSpec == MCInit /\ [][MCNext]_mcVars

MCSymmetry == Permutations(HttpWorkers) \cup Permutations(Fds)
=============================================================================
