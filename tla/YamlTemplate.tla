---------------------------- MODULE YamlTemplate ----------------------------
(***************************************************************************)
(* readYAMLRequest (src/template.go 54-129): a YAML template's fields are  *)
(* copied into the options parsed from the flags.  Its I/O (reading the    *)
(* file, making the base directory absolute, YAML (un)marshalling) and the *)
(* URL resolution of peer-list and thrift paths either succeed or fail;    *)
(* options already copied when a later step fails stay copied.             *)
(*                                                                         *)
(* Headers and baggage are partial functions from keys to values; peers    *)
(* a sequence of peer names.  A path or URL string is kept as what         *)
(* strings.Split(s, "/") makes of it, a sequence of names: "/a/b/" is      *)
(* <<"", "a", "b", "">>, "" is <<"">>.  A name "%zz" is an invalid URL     *)
(* escape, which url.Parse rejects.                                        *)
(***************************************************************************)
EXTENDS SequencesExt, TLC

CONSTANTS
    FlagOptions,  \* the options as parsed from the command line
    Templates,    \* the decoded templates the file may hold
    Cwd           \* the working directory, as its names below "/"

VARIABLES
    flags,        \* the options before the call
    tmpl,         \* the template in the file
    opts,         \* *opts as readYAMLRequest leaves it
    status        \* "pending", then "ok" or "err": what it returned

yvars == <<flags, tmpl, opts, status>>

\* Mutant of merge: a template entry replaces the flag's.
mergeTemplateWins(target, source) ==
    IF DOMAIN source = {} THEN target
    ELSE IF DOMAIN target = {} THEN source
    ELSE source @@ target

\* Lines 133-148: the flags' (target) entries win; the template (source)
\* only adds keys; either side empty returns the other.
merge(target, source) ==
    IF DOMAIN source = {} THEN target
    ELSE IF DOMAIN target = {} THEN source
    ELSE target @@ source

\* Lines 91-95: peer beats peers; neither leaves the flags' peers.
choosePeers(o, t) ==
    IF t.peer # "" THEN <<t.peer>>
    ELSE IF t.peers # <<>> THEN t.peers
    ELSE o.peers

\* An empty string field of the template or of the options.
Unset == <<"">>

\* The names below "/" filepath.Clean leaves of a rooted path: "" and "."
\* are dropped, ".." removes the name before it (none above the root).
cleanStep(names, e) ==
    CASE e \in {"", "."} -> names
      [] e = ".."        -> IF names = <<>> THEN names ELSE Front(names)
      [] OTHER           -> Append(names, e)

CleanRooted(p) == FoldLeft(cleanStep, <<>>, p)

\* "/" followed by the names joined with "/", split at "/".
Rooted(names) == IF names = <<>> THEN <<"", "">> ELSE <<"">> \o names

\* Lines 65-74: filepath.Dir of the template's path (all but its last
\* name), made absolute by filepath.Abs against the working directory.
templateDir(yamlTemplate) ==
    CleanRooted(IF yamlTemplate[1] = "" THEN Front(yamlTemplate)
                                        ELSE Cwd \o Front(yamlTemplate))

\* Mutant of templateBase: the final slash is not added.
templateBaseNoSlash(yamlTemplate) == Rooted(templateDir(yamlTemplate))

\* Lines 65-79: the base directory with a final slash, unless it already
\* ends in one (the root, "/").
templateBase(yamlTemplate) ==
    LET base == Rooted(templateDir(yamlTemplate))
    IN IF Last(base) = "" THEN base ELSE Append(base, "")

\* url.Parse of a path: an invalid escape is an error.
ParseOK(rel) == \A i \in DOMAIN rel : rel[i] # "%zz"

\* remove_dot_segments of url.resolvePath: "." is dropped, ".." removes the
\* name before it; a path ending in "." or ".." keeps a final slash.
dotStep(names, e) ==
    CASE e = "."  -> names
      [] e = ".." -> IF names = <<>> THEN names ELSE Front(names)
      [] OTHER    -> Append(names, e)

\* Lines 150-162: resolve(base, rel) is the path of
\* url.URL{Scheme: "file", Path: base}.ResolveReference(url.Parse(rel)):
\* an absolute rel replaces the path, a relative one replaces what follows
\* base's last slash; then the dot segments are removed.
resolve(base, rel) ==
    LET full  == IF rel[1] = "" THEN rel ELSE Front(base) \o rel
        elems == Tail(full)
        names == FoldLeft(dotStep, <<>>, elems)
    IN IF names = <<>> THEN <<"", "">>
       ELSE <<"">> \o names
            \o (IF Last(elems) \in {".", ".."} THEN <<"">> ELSE <<>>)

\* url.URL{Scheme: "file", Path: p}.String(): "file://" followed by p.
fileURLString(p) == <<"file:", "">> \o p

Init ==
    /\ flags \in FlagOptions
    /\ tmpl \in Templates
    /\ opts = flags
    /\ status = "pending"

\* Lines 60-89: reading, Abs, yaml.Unmarshal and yaml.Marshal fail before
\* anything is copied.
ReadFails ==
    /\ status = "pending"
    /\ status' = "err"
    /\ UNCHANGED <<flags, tmpl, opts>>

\* Lines 91-129, in order: peers; the peer list (resolve may fail);
\* headers, baggage and jaeger; the thrift file (resolve may fail); then
\* the remaining fields.  The peer list keeps the resolved URL, the thrift
\* file its path.
Read ==
    /\ status = "pending"
    /\ LET base == templateBase(opts.yamlTemplate)
           o1 == [opts EXCEPT !.peers = choosePeers(opts, tmpl)]
           o2 == [o1 EXCEPT !.peerList =
                      IF tmpl.peerList = Unset THEN @
                      ELSE fileURLString(resolve(base, tmpl.peerList))]
           o3 == [o2 EXCEPT !.headers = merge(@, tmpl.headers),
                            !.baggage = merge(@, tmpl.baggage),
                            !.jaeger  = @ \/ tmpl.jaeger]
           o4 == [o3 EXCEPT !.thrift = IF tmpl.thrift = Unset THEN @
                                       ELSE resolve(base, tmpl.thrift)]
       IN CASE tmpl.peerList # Unset /\ ~ParseOK(tmpl.peerList) ->
                   opts' = o1 /\ status' = "err"
            [] tmpl.thrift # Unset /\ ~ParseOK(tmpl.thrift) ->
                   opts' = o3 /\ status' = "err"
            [] OTHER -> /\ opts' = [o4 EXCEPT !.procedure = tmpl.procedure]
                        /\ status' = "ok"
    /\ UNCHANGED <<flags, tmpl>>

Next == ReadFails \/ Read

Spec == Init /\ [][Next]_yvars

-----------------------------------------------------------------------------
\* Lines 104-107, "flags override those specified in YAML templates": after
\* a template was read, every header and baggage entry given by a flag has
\* the flag's value, and the template supplies exactly the keys the flags
\* did not set.
FlagsOverrideTemplate ==
    status = "ok" =>
        \A f \in {"headers", "baggage"} :
            /\ DOMAIN opts[f] = DOMAIN flags[f] \cup DOMAIN tmpl[f]
            /\ \A k \in DOMAIN opts[f] :
                   opts[f][k] = IF k \in DOMAIN flags[f] THEN flags[f][k]
                                                        ELSE tmpl[f][k]

\* The file a path names when read relative to the template's directory:
\* filepath.Join(dir, rel), or rel itself when it is absolute.
besideTemplate(yamlTemplate, rel) ==
    CleanRooted(IF rel[1] = "" THEN rel ELSE templateDir(yamlTemplate) \o rel)

\* Lines 67-79 and resolve (150-162): a relative thrift file or peer list
\* in a template names a file in the template's directory, whatever the
\* path of the template, the working directory, "." and ".." in it, or a
\* template at the root; the thrift option gets that file's path, the
\* peer list option its file:// URL.
ResolvesBesideTemplate ==
    status = "ok" =>
        /\ tmpl.thrift # Unset =>
               CleanRooted(opts.thrift)
                   = besideTemplate(flags.yamlTemplate, tmpl.thrift)
        /\ tmpl.peerList # Unset =>
               /\ SubSeq(opts.peerList, 1, 2) = <<"file:", "">>
               /\ CleanRooted(Tail(Tail(opts.peerList)))
                      = besideTemplate(flags.yamlTemplate, tmpl.peerList)

=============================================================================
