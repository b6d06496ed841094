--------------------------- MODULE MCYamlTemplate ---------------------------
(* Flags and templates over two header keys, two values and three peers;  *)
(* template paths relative to the working directory, to a subdirectory,   *)
(* to its parent and at the root; thrift and peer-list paths plain,       *)
(* with "." or "..", absolute, or not a URL.                              *)
EXTENDS YamlTemplate

\* Every partial function from {k1, k2} to {f, t}.
KeyMaps == UNION {[D -> {"f", "t"}] : D \in SUBSET {"k1", "k2"}}

\* yab -y t.yaml, -y cfg/t.yaml, -y ../t.yaml, -y /t.yaml
YamlPaths ==
    {<<"t.yaml">>, <<"cfg", "t.yaml">>, <<"..", "t.yaml">>, <<"", "t.yaml">>}

MCFlagOptions ==
    [yamlTemplate: YamlPaths, peers: {<<>>, <<"p3">>}, peerList: {Unset},
     headers: KeyMaps, baggage: {<<>>, "k1" :> "f"}, jaeger: {FALSE},
     thrift: {Unset}, procedure: {"Flag::m"}]

MCTemplates ==
    [peer: {"", "p1"}, peers: {<<>>, <<"p2">>},
     peerList: {Unset, <<"hosts", "peers.json">>, <<"%zz">>},
     headers: KeyMaps, baggage: {<<>>, "k1" :> "t"}, jaeger: BOOLEAN,
     thrift: {Unset, <<"x.thrift">>, <<".", "idl", "..", "x.thrift">>,
              <<"..", "..", "..", "x.thrift">>, <<"", "idl", "x.thrift">>,
              <<"%zz">>},
     procedure: {""}]

\* yab runs in /work/yab.
MCCwd == <<"work", "yab">>

=============================================================================
