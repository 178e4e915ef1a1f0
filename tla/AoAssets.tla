------------------------------ MODULE AoAssets ------------------------------
(***************************************************************************)
(* Where Attorney Online keeps its assets: the names AOAssetLibrary looks  *)
(* an asset up under, best first, the names it prefetches, and the         *)
(* character sheet read from char.ini.  Over HTTP a lookup only ever finds *)
(* what some prefetch has asked for.                                       *)
(***************************************************************************)
EXTENDS Integers, Sequences, SequencesExt, FiniteSets

CONSTANTS
    LegacyPos, ModernPos,  \* positions with a file name of their own ("def"), and others
    Hostings,      \* what a server may host: sets of <<name, ext>>
    Advertised,    \* the extensions of its extensions.json
    Sheets         \* what char.ini may say: [number, emotes: numbers defined, sfx: number -> name]

ASSUME SheetsAssumption == \A s \in Sheets : s.number \in Nat

DefaultExts == {"webp", "apng", "gif", "png"}

VARIABLES
    hosted, exts_loaded, asked, answered_files,
    wanted_bg, wanted_emote,   \* history: backgrounds and sprites that were prefetched, sprites that were looked up
    tried_emote,
    configs_loaded, design, fonts, chat_config,   \* the theme's files: "none", "theme" or "default"
    char_ini, sheet

aoaVars == <<hosted, exts_loaded, asked, answered_files, wanted_bg, wanted_emote, tried_emote, configs_loaded, design,
             fonts, chat_config, char_ini, sheet>>

AoaInit ==
    /\ hosted \in Hostings /\ exts_loaded = FALSE /\ asked = {} /\ answered_files = {}
    /\ wanted_bg = {} /\ wanted_emote = {} /\ tried_emote = {}
    /\ configs_loaded = FALSE /\ design = "none" /\ fonts = "none" /\ chat_config = "none"
    /\ char_ini \in Sheets /\ sheet = <<>>

Here == asked \cap answered_files \cap hosted

-----------------------------------------------------------------------------
(* Names: <<directory, kind, stem>>. *)
bg_filename(pos) == IF pos \in LegacyPos THEN "legacy " \o pos ELSE pos
desk_filename(pos) == IF pos \in LegacyPos THEN "desk " \o pos ELSE pos \o "_overlay"
Bg(name, file) == <<"background", name, file>>
Char(c, file) == <<"characters", c, file>>

\* background(): the legacy name, the modern one, the default background's.
background(name, pos) ==
    <<Bg(name, bg_filename(pos))>> \o (IF pos \in LegacyPos THEN <<Bg(name, pos)>> ELSE <<>>)
    \o (IF name # "default" THEN <<Bg("default", bg_filename(pos))>> ELSE <<>>)
desk_overlay(name, pos) ==
    <<Bg(name, desk_filename(pos))>> \o (IF name # "default" THEN <<Bg("default", desk_filename(pos))>> ELSE <<>>)
character_emote(c, e, prefix) == <<Char(c, prefix \o e)>> \o (IF prefix # "" THEN <<Char(c, e)>> ELSE <<>>)

Found(n) == \E x \in DefaultExts : <<n, x>> \in Here
\* The first of the candidates that can be decoded, or none.
FirstFound(cands) ==
    LET hits == {i \in DOMAIN cands : Found(cands[i])} IN IF hits = {} THEN <<>> ELSE <<cands[Min(hits)]>>

-----------------------------------------------------------------------------
(* Prefetching, with the extensions the server advertises once it has. *)
Exts == IF exts_loaded THEN Advertised ELSE DefaultExts
Files_(ns, xs) == {<<n, x>> : n \in ns, x \in xs}
\* What is decoded already is not asked for.
Requested(ns) == Files_({n \in ns : ~Found(n)}, Exts)

ExtensionsArrive ==
    /\ ~exts_loaded /\ exts_loaded' = TRUE
    /\ UNCHANGED <<hosted, asked, answered_files, wanted_bg, wanted_emote, tried_emote, configs_loaded, design, fonts,
                   chat_config, char_ini, sheet>>

NamesOfBg(name, pos) == {Bg(name, bg_filename(pos)), Bg(name, pos), Bg(name, desk_filename(pos))}

prefetch_background(name, pos) ==
    /\ asked' = asked \cup Requested(NamesOfBg(name, pos)) /\ wanted_bg' = wanted_bg \cup {<<name, pos>>}
    /\ UNCHANGED <<hosted, exts_loaded, answered_files, wanted_emote, tried_emote, configs_loaded, design, fonts,
                   chat_config, char_ini, sheet>>

prefetch_character(c, e) ==
    /\ asked' = asked \cup Requested({Char(c, "(a)" \o e), Char(c, "(b)" \o e), Char(c, e)}) \cup {<<Char(c, "char"), "ini">>}
    /\ wanted_emote' = wanted_emote \cup {<<c, e>>}
    /\ UNCHANGED <<hosted, exts_loaded, answered_files, wanted_bg, tried_emote, configs_loaded, design, fonts,
                   chat_config, char_ini, sheet>>

\* Requests are answered, each with the file or with 404: those for one name, or a directory's at once.
FilesArrive(fs) ==
    /\ ~(fs \subseteq answered_files) /\ answered_files' = answered_files \cup fs
    /\ UNCHANGED <<hosted, exts_loaded, asked, wanted_bg, wanted_emote, tried_emote, configs_loaded, design, fonts,
                   chat_config, char_ini, sheet>>

Retried_not(cands) == {}

\* Not found under any name: every default extension is asked for; the emote player looks again later.
Retried(cands) == Files_(Range(cands), DefaultExts)

LookupEmote(c, e, prefix) ==
    LET cands == character_emote(c, e, prefix) IN
    /\ <<c, e>> \in wanted_emote /\ FirstFound(cands) = <<>>
    /\ asked' = asked \cup Retried(cands) /\ tried_emote' = tried_emote \cup {<<c, e, prefix>>}
    /\ UNCHANGED <<hosted, exts_loaded, answered_files, wanted_bg, wanted_emote, configs_loaded, design, fonts,
                   chat_config, char_ini, sheet>>

-----------------------------------------------------------------------------
(* The theme's files are read again until the two essential ones are there. *)
Config(file) == CASE <<<<"themes", "theme", file>>, "ini">> \in Here -> "theme"
                  [] <<<<"themes", "default", file>>, "ini">> \in Here -> "default" [] OTHER -> "none"

ensure_configs ==
    /\ ~configs_loaded
    /\ asked' = asked \cup {<<<<"themes", t, f>>, "ini">> : t \in {"theme", "default"}, f \in {"design", "fonts", "chat"}}
    /\ design' = Config("design") /\ fonts' = Config("fonts") /\ chat_config' = Config("chat")
    /\ configs_loaded' = (Config("design") # "none" /\ Config("fonts") # "none")
    /\ UNCHANGED <<hosted, exts_loaded, answered_files, wanted_bg, wanted_emote, tried_emote, char_ini, sheet>>

-----------------------------------------------------------------------------
(* char.ini: the emotes are numbered from 1 and kept in a vector. *)
parse_emotes(ini) ==
    CHOOSE v \in SetToSeqs(ini.emotes \cap 1..ini.number) : \A i, j \in DOMAIN v : i < j => v[i] < v[j]

\* [SoundN] is keyed by the same numbers; key - 1 indexes the vector.
Index(key) == key

parse_sounds(ini) ==
    LET v == parse_emotes(ini) IN
    [i \in DOMAIN v |-> [n |-> v[i], sfx |-> {ini.sfx[k] : k \in {x \in DOMAIN ini.sfx : Index(x) = i}}]]

LoadSheet(c) ==
    /\ sheet = <<>> /\ <<Char(c, "char"), "ini">> \in Here /\ sheet' = <<parse_sounds(char_ini)>>
    /\ UNCHANGED <<hosted, exts_loaded, asked, answered_files, wanted_bg, wanted_emote, tried_emote, configs_loaded,
                   design, fonts, chat_config, char_ini>>

AoaNext ==
    \/ ExtensionsArrive \/ ensure_configs
    \/ \E p \in LegacyPos \cup ModernPos : prefetch_background("court", p)
    \/ prefetch_character("phoenix", "normal") \/ LoadSheet("phoenix")
    \/ \E x \in {"", "(a)"} : LookupEmote("phoenix", "normal", x)
    \/ \E n \in {f[1] : f \in asked} : n[1] = "characters" /\ FilesArrive({g \in asked : g[1] = n})
    \/ \E d \in {"background", "themes"} : FilesArrive({g \in asked : g[1][1] = d})

AoaSpec == AoaInit /\ [][AoaNext]_aoaVars

-----------------------------------------------------------------------------
Quiet_ == asked = answered_files

Served(cands, bg) ==
    (\E n \in Range(cands) : n[2] = bg /\ \E x \in Advertised \cap DefaultExts : <<n, x>> \in hosted)
        => \E n \in Range(cands) : n[2] = bg /\ Found(n)

\* Of a background that was prefetched and whose requests are all answered, a file the server hosts in an advertised
\* default format is found, under whichever name it has, and so is its desk: what background() and desk_overlay() look
\* for, prefetch_background() asked for.
BackgroundFound ==
    Quiet_ => \A b \in wanted_bg : Served(background(b[1], b[2]), b[1]) /\ Served(desk_overlay(b[1], b[2]), b[1])

\* A sprite that was looked for once in vain is found by a later try if the server hosts it in any format the client
\* decodes, also one its extensions.json leaves out.
EmoteFound ==
    Quiet_ => \A e \in tried_emote :
        (\E n \in Range(character_emote(e[1], e[2], e[3])), x \in DefaultExts : <<n, x>> \in hosted)
            => FirstFound(character_emote(e[1], e[2], e[3])) # <<>>

\* If the sheet's numbers have no gap, the sound of emote n is the one [SoundN] gives for n.
SoundsAligned ==
    (sheet # <<>> /\ char_ini.emotes = 1..char_ini.number) =>
        \A i \in DOMAIN sheet[1] : sheet[1][i].sfx = {char_ini.sfx[k] : k \in DOMAIN char_ini.sfx \cap {sheet[1][i].n}}

\* What the client looks for it has asked for, under the names the server has (AOAssetLibrary, AOCharacterSheet).
AssetsFound == BackgroundFound /\ EmoteFound /\ SoundsAligned
=============================================================================
