------------------------------ MODULE MCUpload ------------------------------
(* A small instance of Upload. *)
EXTENDS Upload, TLC

CONSTANTS g1, g2, m1, m2, m3

MCFields == {"user", "level"}

MCValues == {"big", "rounded", "text", "mask", "odd", "huge"}

MCReencode == [v \in MCValues \ {"odd", "huge"} |-> IF v = "big" THEN "rounded" ELSE v]

Entry(type, mode, names, map) == [type |-> type, mode |-> mode, names |-> names, map |-> map]

NoMap == [f \in MCFields |-> "absent"]

\* The null of project b panics in field_add.
Pipelines1 ==
    << Entry("field_redact", "unset", {}, [NoMap EXCEPT !["user"] = "mask"]),
       Entry("field_add", "unset", {}, [NoMap EXCEPT !["level"] = "big"]) >>

\* An unknown type, a mask that is not a string.
Pipelines2 ==
    << Entry("unknown", "unset", {}, NoMap),
       Entry("field_redact", "unset", {}, [user |-> "mask", level |-> "odd"]),
       Entry("field_filter", "include", {"user"}, NoMap) >>

\* A value that json.Marshal refuses, added to the object made of null.
Pipelines3 ==
    << Entry("field_filter", "include", {"user"}, NoMap),
       Entry("field_add", "unset", {}, [NoMap EXCEPT !["user"] = "odd"]) >>

\* A mask before and after the field is added.
Pipelines4 ==
    << Entry("field_redact", "unset", {}, [user |-> "mask", level |-> "mask"]),
       Entry("field_add", "unset", {}, [user |-> "big", level |-> "big"]),
       Entry("field_redact", "unset", {}, [NoMap EXCEPT !["user"] = "mask"]),
       Entry("field_filter", "unset", {"level"}, NoMap) >>

Section(enabled, auth, max, pipelines) ==
    [enabled |-> enabled, authRequired |-> auth, maxBody |-> max, pipelines |-> pipelines]

Off == Section(FALSE, FALSE, 0, <<>>)

\* Configurations 1 and 2 are about nonces, 3 and 4 about dispatching, in 5 an
\* authenticated request is dispatched, and 6 disables the projects.
MCProjectOf ==
    << [a |-> Off, b |-> Off],
       [a |-> Off, b |-> Off],
       [a |-> Section(TRUE, FALSE, 0, Pipelines1), b |-> Off],
       [a |-> Section(TRUE, FALSE, 2, Pipelines2), b |-> Section(TRUE, FALSE, 0, Pipelines3)],
       [a |-> Section(TRUE, TRUE, 0, Pipelines4), b |-> Section(TRUE, FALSE, 0, Pipelines1)],
       [a |-> Off, b |-> Off] >>

MCEdits == <<{}, {1}, {4}, {6}, {}, {}>>

AuthSection(enabled, ttl, size) ==
    [enabled |-> enabled, window |-> 1, ttl |-> ttl, size |-> size]

MCAuthOf ==
    << AuthSection(TRUE, 3, 1), AuthSection(TRUE, 4, 2), AuthSection(FALSE, 3, 1),
       AuthSection(FALSE, 3, 1), AuthSection(TRUE, 3, 1), AuthSection(FALSE, 3, 1) >>

MCMaxBodyBytes == <<3, -1, 3, 2, 3, 3>>

MCMaxClock == <<7, 7, 0, 0, 0, 0>>

Req(nonce, stamp, fault, size, project, wellFormed, data) ==
    [nonce |-> nonce, stamp |-> stamp, fault |-> fault, size |-> size,
     project |-> project, wellFormed |-> wellFormed, data |-> data]

Plain     == Req("n1", 1, "none", 1, "a", TRUE, Object([user |-> "big", level |-> "text"]))
Null      == Req("n2", 1, "none", 3, "b", TRUE, Bare("null"))
Keyless   == Req("n1", 1, "key", 3, "a", TRUE, Bare("other"))
\* A timestamp ahead of the clock.
Ahead     == Req("n1", 2, "none", 1, None, TRUE, Bare("none"))
\* A number outside float64.
Huge      == Req("n1", 1, "none", 1, "a", TRUE, Object([user |-> "big", level |-> "huge"]))
Malformed == Req("n1", 1, "signature", 1, "b", FALSE, Bare("none"))

MCRequests == {Plain, Null, Keyless, Ahead, Huge, Malformed}

MCSent ==
    << {Plain, Ahead}, {Plain, Null, Ahead},
       {Plain, Keyless, Huge, Malformed}, {Plain, Null, Huge, Malformed},
       {Plain, Null, Malformed}, {} >>

MCSymmetry == Permutations({m1, m2, m3}) \cup Permutations({g1, g2})

=============================================================================
