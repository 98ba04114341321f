------------------------------ MODULE Options ------------------------------
(***************************************************************************)
(* The options of the daemon: what main gives to lu_opt_parse, the lines   *)
(* of /etc/lufsd.conf read by lu_opt_loadcfg, the lookups of               *)
(* lu_opt_getchar and the settings lu_cache_create takes from them.        *)
(*                                                                         *)
(* A text is a sequence of tokens: a word, "::", or a single character.    *)
(***************************************************************************)
EXTENDS Integers, Sequences, SequencesExt

CONSTANTS
    CommandLines,  \* the options users give with -o, split at the commas
    Lines,         \* lines of the file: their text, what they say with and
                   \* without the newline at their end
    Words,         \* the tokens of more than one character, but for "::"
    MaxLen,        \* MAX_LEN, in tokens
    MaxLines       \* bound on the lines of the file

VARIABLES
    pc,      \* where main is
    conf,    \* the list of domains, the newest first, each with its options
    given,   \* what has been given so far, in order (history)
    lines,   \* lines read
    cache    \* ttl and entries of the directory cache

vars == <<pc, conf, given, lines, cache>>

MOUNT == <<"MOUNT">>
LUFSD == <<"LUFSD">>

DefaultSettings == [ttl |-> 20, entries |-> 6]

----------------------------------------------------------------------------
(***************************************************************************)
(* The list of options.                                                    *)
(***************************************************************************)
FindDomain(cf, domain) == SelectInSeq(cf, LAMBDA d : d.name = domain)

\* Mutant of AddOption: list_add_tail.
AddOptionLast(cf, domain, option) ==
    LET i == FindDomain(cf, domain) IN
    IF i = 0 THEN <<[name |-> domain, properties |-> <<option>>]>> \o cf
    ELSE [cf EXCEPT ![i].properties = @ \o <<option>>]

\* A domain is made when it is missing; the option becomes its first.
AddOption(cf, domain, option) ==
    LET i == FindDomain(cf, domain) IN
    IF i = 0 THEN <<[name |-> domain, properties |-> <<option>>]>> \o cf
    ELSE [cf EXCEPT ![i].properties = <<option>> \o @]

\* lu_opt_getchar: <<>> for NULL, <<value>> for the first option of the key.
Getchar(cf, domain, key) ==
    LET i     == FindDomain(cf, domain)
        props == IF i = 0 THEN <<>> ELSE cf[i].properties
        j     == SelectInSeq(props, LAMBDA o : o.key = key)
    IN  IF j = 0 THEN <<>> ELSE <<props[j].value>>

\* strchr and strstr: what is before the first token t, and what is after.
Has(text, t)    == \E i \in 1 .. Len(text) : text[i] = t
At(text, t)     == SelectInSeq(text, LAMBDA x : x = t)
Before(text, t) == IF Has(text, t) THEN SubSeq(text, 1, At(text, t) - 1) ELSE text
After(text, t)  == SubSeq(text, At(text, t) + 1, Len(text))

\* One option of the command line; a flag has the empty value.
OptionOf(text) ==
    [key |-> Before(text, "="), value |-> IF Has(text, "=") THEN After(text, "=") ELSE <<>>]

\* The options main puts before those of the user.
OwnOptions == <<<<"fs", "=", "livecdfs">>, <<"fs_ids">>, <<"ext_links">>, <<"mount", "=", "mnt">>>>

\* lu_opt_parse gives up at a value of MAX_LEN characters.
TooLong(opts) == \E i \in 1 .. Len(opts) : Len(OptionOf(opts[i]).value) >= MaxLen
OptParse(cf, domain, opts) ==
    FoldLeft(LAMBDA c, o : AddOption(c, domain, OptionOf(o)), cf, opts)

\* Blanks at the ends are dropped.
Trim(text) ==
    LET ink == {i \in 1 .. Len(text) : text[i] # " "} IN
    SelectSeq([i \in 1 .. Len(text) |->
                  IF (\E j \in ink : j <= i) /\ (\E j \in ink : j >= i) THEN text[i] ELSE "end"],
              LAMBDA t : t # "end")

\* buf[strlen(buf) - 1] = 0 is for the newline; the last line of a file may
\* have none and loses a character of its own.
Clip(text) ==
    LET t == Last(text) IN
    Front(text) \o (IF t = "::" THEN <<":">> ELSE IF t \in Words THEN <<"clipped">> ELSE <<>>)

\* The rest of the loop: the comment is cut off, and of the first "=" and the
\* first "::" each ends what is before it.
LoadText(cf, text) ==
    LET buf     == Before(text, "#")
        ordered == At(buf, "::") < At(buf, "=")
        cls     == Before(Before(buf, "="), "::")
        key     == After(buf, "::")
        val     == After(buf, "=")
    IN  IF ~Has(buf, "=") \/ ~Has(buf, "::") THEN cf
        ELSE AddOption(cf, Trim(cls),
                       [key   |-> Trim(IF ordered THEN Before(key, "=") ELSE key),
                        value |-> Trim(IF ordered THEN val ELSE Before(val, "::"))])

----------------------------------------------------------------------------
(***************************************************************************)
(* The settings of the cache.                                              *)
(***************************************************************************)
Digit == [d \in {"0", "1", "2", "3"} |->
              CASE d = "0" -> 0 [] d = "1" -> 1 [] d = "2" -> 2 [] d = "3" -> 3]

\* atoi: the digits a text begins with, after a sign.
Number(text) ==
    LET signed == Len(text) > 0 /\ text[1] = "-"
        digits == IF signed THEN Tail(text) ELSE text
        stop   == SelectInSeq(digits, LAMBDA t : t \notin DOMAIN Digit)
        run    == IF stop = 0 THEN digits ELSE SubSeq(digits, 1, stop - 1)
        n      == FoldLeft(LAMBDA a, t : 10 * a + Digit[t], 0, run)
    IN  IF signed THEN -n ELSE n

\* A setting that is missing or not a number other than 0 changes nothing.
Setting(cf, domain, key, old) ==
    LET c == Getchar(cf, domain, key) IN
    IF c # <<>> /\ Number(c[1]) # 0 THEN Number(c[1]) ELSE old

CacheSettings(cf) ==
    [ttl     |-> Setting(cf, MOUNT, <<"dir_cache_ttl">>,
                     Setting(cf, LUFSD, <<"DirCacheTTL">>, DefaultSettings.ttl)),
     entries |-> Setting(cf, MOUNT, <<"dir_cache_entries">>,
                     Setting(cf, LUFSD, <<"DirCacheEntries">>, DefaultSettings.entries))]

----------------------------------------------------------------------------
(***************************************************************************)
(* The steps of main.                                                      *)
(***************************************************************************)
Init ==
    /\ pc = "parse"
    /\ conf = <<>> /\ given = <<>> /\ lines = 0
    /\ cache = DefaultSettings

\* lu_opt_parse; when it fails main exits.
Parse ==
    /\ pc = "parse"
    /\ \E user \in CommandLines :
         LET opts == OwnOptions \o user IN
         IF TooLong(opts)
         THEN pc' = "exit" /\ UNCHANGED <<conf, given>>
         ELSE /\ pc' = "open"
              /\ conf' = OptParse(conf, MOUNT, opts)
              /\ given' = given \o [i \in 1 .. Len(opts) |->
                     [domain |-> MOUNT, key |-> OptionOf(opts[i]).key, value |-> OptionOf(opts[i]).value]]
    /\ UNCHANGED <<lines, cache>>

\* fopen.  The second file, "~/.lufs/lufsd.conf", is never found: nothing
\* replaces the "~" by the home of the user.
Open == pc = "open" /\ pc' \in {"load", "create"} /\ UNCHANGED <<conf, given, lines, cache>>

LoadLine ==
    /\ pc = "load" /\ lines < MaxLines
    /\ \E l \in Lines : conf' = LoadText(conf, l.text) /\ given' = given \o l.says
    /\ lines' = lines + 1
    /\ UNCHANGED <<pc, cache>>

LoadUnterminated ==
    /\ pc = "load" /\ lines < MaxLines
    /\ \E l \in Lines : conf' = LoadText(conf, Clip(l.text)) /\ given' = given \o l.clipped
    /\ lines' = lines + 1
    /\ pc' = "create"
    /\ UNCHANGED cache

EndOfFile == pc = "load" /\ pc' = "create" /\ UNCHANGED <<conf, given, lines, cache>>

\* lu_cache_create, the first thing lu_fsctl_create does.
CacheCreate ==
    /\ pc = "create" /\ pc' = "ready"
    /\ cache' = CacheSettings(conf)
    /\ UNCHANGED <<conf, given, lines>>

Next == Parse \/ Open \/ LoadLine \/ LoadUnterminated \/ EndOfFile \/ CacheCreate

Spec == Init /\ [][Next]_vars

----------------------------------------------------------------------------
Given(domain, key) == SelectSeq(given, LAMBDA g : g.domain = domain /\ g.key = key)

LookupsAsGiven ==
    \A domain \in {MOUNT, LUFSD} \cup {g.domain : g \in Range(given)},
       key \in {<<"rw_tmp">>} \cup {g.key : g \in Range(given)} :
        LET all == Given(domain, key) IN
        Getchar(conf, domain, key) = IF all = <<>> THEN <<>> ELSE <<Last(all).value>>

Asked(domain, key) ==
    LET all == Given(domain, key) IN
    IF all = <<>> THEN 0 ELSE Number(Last(all).value)

SettingsAsAsked ==
    pc = "ready" =>
        \A s \in {<<"ttl", "dir_cache_ttl", "DirCacheTTL">>,
                 <<"entries", "dir_cache_entries", "DirCacheEntries">>} :
            LET wanted == SelectSeq(<<Asked(MOUNT, <<s[2]>>), Asked(LUFSD, <<s[3]>>),
                                      DefaultSettings[s[1]]>>, LAMBDA n : n # 0)
            IN  cache[s[1]] = wanted[1]

\* The last one given wins.  A lookup returns what was given last, wherever it
\* came from: a line of the file takes precedence over the command line, a
\* later option over an earlier one; what was not given is not found.  And the
\* cache works with the numbers that were asked for, negative ones too: those
\* of the mount before those of the daemon, whichever of the file and the
\* command line they come from, and the defaults when neither is a number
\* other than 0.
LastGivenWins == LookupsAsGiven /\ SettingsAsAsked
=============================================================================
