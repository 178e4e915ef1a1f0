------------------------------ MODULE LayerBoot ------------------------------
(***************************************************************************)
(* How the moderation layers get their data: a detached thread fetches the *)
(* embedding model and then the anchors, another the slur list and then    *)
(* its exceptions, each with retries, from the network or from a cache     *)
(* directory that survives restarts.  Crashes may interrupt a write.       *)
(***************************************************************************)
EXTENDS Integers, Sequences, FiniteSets

CONSTANTS MaxRetries, MaxHops, MaxBoots

VARIABLES
    modelFile,     \* "absent", "partial" or "whole"
    listFile,      \* the same of "slurs", "exceptions" and "anchors"
    embedPc,       \* what the embedding thread does
    slurPc,        \* what the slur thread does
    tries,         \* attempts of the fetch each thread is in
    hops,          \* redirects the model download has followed
    backendUp,       \* the embedding backendUp is ready
    loaded,        \* lists installed in their layers
    weights,       \* LocalClassifierLayer::weights_ is set
    lbBoots,
    torn,          \* history: files a crash interrupted
    whole          \* history: files written whole since they were last torn

lbVars == <<modelFile, listFile, embedPc, slurPc, tries, hops, backendUp, loaded, weights, lbBoots, torn, whole>>

Lists == {"slurs", "exceptions", "anchors"}

LbInit ==
    /\ modelFile = "absent" /\ listFile = [l \in Lists |-> "absent"]
    /\ embedPc = "model" /\ slurPc = "slurs" /\ tries = [t \in {"embed", "slur"} |-> 0] /\ hops = 0
    /\ backendUp = FALSE /\ loaded = {} /\ weights = FALSE /\ lbBoots = 0 /\ torn = {} /\ whole = {}

\* retry_with_backoff: a failed attempt is repeated, up to MaxRetries times.
Retry(t) == tries[t] < MaxRetries /\ tries' = [tries EXCEPT ![t] = @ + 1]
GiveUp(t) == tries[t] = MaxRetries /\ tries' = [tries EXCEPT ![t] = 0]
Success(t) == tries' = [tries EXCEPT ![t] = 0]

\* resolve_hf_model: a file that is there is a hit, whatever it holds.
CacheHit ==
    /\ embedPc = "model" /\ modelFile # "absent"
    /\ embedPc' = "load" /\ Success("embed")
    /\ UNCHANGED <<modelFile, listFile, slurPc, hops, backendUp, loaded, weights, lbBoots, torn, whole>>

\* download_with_redirects opens, and so empties, the file on every hop.
BeginDownload ==
    /\ embedPc = "model" /\ modelFile = "absent"
    /\ modelFile' = "partial" /\ embedPc' = "download" /\ hops' = 0
    /\ UNCHANGED <<listFile, slurPc, tries, backendUp, loaded, weights, lbBoots, torn, whole>>

Redirected ==
    /\ embedPc = "download" /\ hops < MaxHops - 1
    /\ hops' = hops + 1
    /\ UNCHANGED <<modelFile, listFile, embedPc, slurPc, tries, backendUp, loaded, weights, lbBoots, torn, whole>>

Downloaded ==
    /\ embedPc = "download"
    /\ modelFile' = "whole" /\ embedPc' = "load" /\ whole' = whole \cup {"model"} /\ torn' = torn \ {"model"}
    /\ Success("embed")
    /\ UNCHANGED <<listFile, slurPc, hops, backendUp, loaded, weights, lbBoots>>

\* A transport failure, a bad status or redirect, too many hops, too many bytes.
DownloadFailed ==
    /\ embedPc = "download"
    /\ modelFile' = "absent"
    /\ \/ Retry("embed") /\ embedPc' = "model"
       \/ GiveUp("embed") /\ embedPc' = "inert"
    /\ UNCHANGED <<listFile, slurPc, hops, backendUp, loaded, weights, lbBoots, torn, whole>>

\* Weights that are malformed or made for another model leave the classifier off.
load_weights(fits) == weights' = fits

\* make_embedding_backend and set_embedding_backend, which also offers the
\* classifier its weights: they are taken only if they match the model.
LoadBackend(matches) ==
    /\ embedPc = "load"
    /\ backendUp' = (modelFile = "whole")
    /\ load_weights(backendUp' /\ matches)
    /\ embedPc' = IF backendUp' THEN "anchors" ELSE "inert"
    /\ UNCHANGED <<modelFile, listFile, slurPc, tries, hops, loaded, lbBoots, torn, whole>>

NextList(l) == CASE l = "slurs" -> "exceptions" [] OTHER -> "done"
Thread(t) == IF t = "embed" THEN embedPc ELSE slurPc
Advance(t, pc) == IF t = "embed" THEN embedPc' = pc /\ UNCHANGED slurPc ELSE slurPc' = pc /\ UNCHANGED embedPc

\* fetch_text_list, answered: the cache is overwritten (not when it cannot be
\* opened) and the entries are installed.
ListFetched(t, l, cached) ==
    /\ Thread(t) = l
    /\ listFile' = IF cached THEN [listFile EXCEPT ![l] = "whole"] ELSE listFile
    /\ whole' = IF cached THEN whole \cup {l} ELSE whole
    /\ torn' = IF cached THEN torn \ {l} ELSE torn
    /\ loaded' = loaded \cup {l} /\ Success(t) /\ Advance(t, NextList(l))
    /\ UNCHANGED <<modelFile, hops, backendUp, weights, lbBoots>>

ListFailed_no_fallback(t, l) ==
    /\ Thread(t) = l
    /\ \/ Retry(t) /\ UNCHANGED <<loaded, embedPc, slurPc>>
       \/ GiveUp(t) /\ Advance(t, NextList(l)) /\ UNCHANGED loaded
    /\ UNCHANGED <<modelFile, listFile, hops, backendUp, weights, lbBoots, torn, whole>>

\* Not answered: a cache file with anything in it is used instead.
ListFailed(t, l) ==
    /\ Thread(t) = l
    /\ IF listFile[l] # "absent"
         THEN loaded' = loaded \cup {l} /\ Success(t) /\ Advance(t, NextList(l))
         ELSE \/ Retry(t) /\ UNCHANGED <<loaded, embedPc, slurPc>>
              \/ GiveUp(t) /\ Advance(t, NextList(l)) /\ UNCHANGED loaded
    /\ UNCHANGED <<modelFile, listFile, hops, backendUp, weights, lbBoots, torn, whole>>

\* The process dies, perhaps while a list is being written over, and starts again.
LbRestart(tearing) ==
    /\ lbBoots < MaxBoots /\ lbBoots' = lbBoots + 1
    /\ tearing \subseteq ({embedPc, slurPc} \cap Lists)
    /\ listFile' = [l \in Lists |-> IF l \in tearing THEN "partial" ELSE listFile[l]]
    /\ torn' = torn \cup tearing \cup (IF modelFile = "partial" THEN {"model"} ELSE {})
    /\ whole' = whole \ torn'
    /\ embedPc' = "model" /\ slurPc' = "slurs" /\ tries' = [t \in {"embed", "slur"} |-> 0] /\ hops' = 0
    /\ backendUp' = FALSE /\ loaded' = {} /\ weights' = FALSE
    /\ UNCHANGED modelFile

LbNext ==
    \/ CacheHit \/ BeginDownload \/ Redirected \/ Downloaded \/ DownloadFailed
    \/ \E b \in BOOLEAN : LoadBackend(b)
    \/ \E l \in Lists : LET t == IF l = "anchors" THEN "embed" ELSE "slur" IN
          \/ \E b \in BOOLEAN : ListFetched(t, l, b)
          \/ ListFailed(t, l)
    \/ \E T \in SUBSET Lists : LbRestart(T)

LbSpec == LbInit /\ [][LbNext]_lbVars

-----------------------------------------------------------------------------
\* A download that fails for any reason leaves no file that a retry would take
\* for the model: half a file is there only while it is being written or after a
\* crash wrote no more of it.
NoHalfModel == modelFile = "partial" => (embedPc = "download" \/ "model" \in torn)

\* The escape hatch of the lists: once a list is in the cache, the layer is armed
\* at every start, whether or not the network answers.
ListsSurviveOutage ==
    /\ (slurPc \in {"exceptions", "done"} /\ "slurs" \in whole) => "slurs" \in loaded
    /\ (slurPc = "done" /\ "exceptions" \in whole) => "exceptions" \in loaded

\* The caches of lists and model outlast failures: what is in them is whole, and it is used when the network is not there.
CachesHold == NoHalfModel /\ ListsSurviveOutage
=============================================================================
