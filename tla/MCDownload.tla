----------------------------- MODULE MCDownload -----------------------------
(* Download for packages at the edge of each limit and of each comparison. *)
EXTENDS Download

Path(dirs, name, inner, ext) == [dirs |-> dirs, name |-> name, inner |-> inner, ext |-> ext]
Paths == [manifest |-> Path(<<"package">>, "package", "", "json"),
          nested |-> Path(<<"package", "example", "package">>, "package", "", "json"),
          a |-> Path(<<"package">>, "a", "", "js"),
          b |-> Path(<<"package", "lib2">>, "b", "", "mjs"),
          dist |-> Path(<<"package", "dist">>, "c", "", "js"),
          min |-> Path(<<"package">>, "c", "min", "js"),
          escape |-> Path(<<"..">>, "d", "", "js"),
          root |-> Path(<<"", "tmp">>, "d", "", "js")]

Blank == [scripts |-> {}, imports |-> {}, calls |-> {}, long |-> 0, dense |-> 0, base64 |-> 0, hex |-> 0]
Code(imports, calls, long, dense) ==
    [Blank EXCEPT !.imports = imports, !.calls = calls, !.long = long, !.dense = dense]
Manifest(scripts) == [Blank EXCEPT !.scripts = {scripts}]
NoScripts == Manifest([h \in {} |-> {}])

File(path, size, content) == [path |-> path, regular |-> TRUE, size |-> size, content |-> content]
Directory == [path |-> Path(<< >>, "package", "", ""), regular |-> FALSE, size |-> 0, content |-> Blank]
Tar(bytes, entries) == [bytes |-> bytes, entries |-> entries]

\* Sizes: at most 3 files of at most 4 bytes, 8 in all; tarballs of at most 10.
Root == File(Paths.manifest, 1, NoScripts)
Exec == File(Paths.a, 2, Code({"exec", "net_access"}, {}, 0, 0))
Env == File(Paths.b, 2, Code({}, {"process_env"}, 0, 0))

Quiet == [h \in Hooks |-> ""]
Meta(scripts, deps, url, tarball) ==
    [scripts |-> scripts, deps |-> deps, url |-> url, tarball |-> tarball]

V(minor, patch, rank) == <<1, minor, patch, rank, 0>>
Current == V(0, 1, Stable)

\* A package with no other version.
Alone(tarball) ==
    [version |-> Current, prev |-> NoVersion, shasum |-> "none", sri |-> "right",
     tarball |-> tarball,
     versions |-> [v \in {Current} |-> Meta(Quiet, {}, TRUE, tarball)]]

\* A package whose install script and dependencies changed since version prev.
Changed(prev, url, before, now) ==
    [Alone(now) EXCEPT !.versions =
        [v \in {prev, Current} |->
            IF v = Current THEN Meta([Quiet EXCEPT !["install"] = "new"], {"d"}, TRUE, now)
            ELSE Meta([Quiet EXCEPT !["prepare"] = "old"], {}, url, before)]]

MCCases ==
    LET split == Tar(9, <<Root, Exec, Env>>) IN
    { Alone(Tar(5, <<Directory, Root,
                     File(Paths.a, 2, Code({"exec", "net_access"}, {"sink_eval"}, 1, 1)),
                     File(Paths.b, 2, Code({}, {"process_env", "sink_new_function"}, 9, 0))>>)),
      Alone(Tar(5, <<File(Paths.a, 2, Code({"exec", "net_access"}, {"process_env", "sink_eval"}, 1, 1)),
                     File(Paths.dist, 2, Code({}, {"sink_dynamic_require"}, 9, 0)),
                     File(Paths.b, 2, [Code({"exec"}, {}, 4, 0) EXCEPT !.base64 = 1])>>)),
      Alone(Tar(5, <<File(Paths.min, 2, [Code({}, {"sink_eval"}, 4, 4) EXCEPT !.hex = 1]),
                     File(Paths.a, 2, Code({}, {}, 6, 1))>>)),
      \* two manifests, one of which pipes a download into a shell
      Alone(Tar(5, <<File(Paths.manifest, 1, Manifest([h \in {"preinstall"} |-> {"curl_pipe", "eval"}])),
                     File(Paths.nested, 1, Manifest([h \in {"install"} |-> {}])), Exec>>)),
      \* a path twice; a file, a total, a count and a path beyond the limits
      Alone(Tar(9, <<File(Paths.a, 3, Code({"exec"}, {}, 0, 0)), Root, File(Paths.a, 4, Blank)>>)),
      Alone(Tar(9, <<Root, File(Paths.a, 5, Blank)>>)),
      Alone(Tar(9, <<File(Paths.a, 4, Blank), File(Paths.b, 4, Blank), Root>>)),
      Alone(Tar(9, <<Root, Exec, Env, File(Paths.dist, 0, Blank)>>)),
      Alone(Tar(9, <<Root, File(Paths.escape, 1, Blank)>>)),
      Alone(Tar(9, <<Root, File(Paths.root, 1, Blank)>>)),
      \* a tarball beyond max_tarball_bytes, with and without a digest
      Alone(Tar(11, <<Root, Exec, Env>>)),
      [Alone(Tar(11, <<Root, Exec, Env>>)) EXCEPT !.sri = "other"],
      [Alone(split) EXCEPT !.shasum = "wrong"],
      [Alone(split) EXCEPT !.sri = "malformed"],
      \* previous versions: a pre-release, a minor step, without a URL
      Changed(V(0, 1, 3), TRUE, split, split),
      Changed(V(0, 0, Stable), FALSE, split, split),
      Changed(V(0, 0, 3), TRUE, Tar(9, <<Root, Env>>), split),
      \* previous tarballs: cut, beyond a limit, without a capability
      Changed(V(0, 0, Stable), TRUE, Tar(11, <<Env, Root, Exec>>), split),
      Changed(V(0, 0, Stable), TRUE, Tar(9, <<Env, File(Paths.a, 5, Exec.content)>>), split),
      Changed(V(0, 0, Stable), TRUE, Tar(9, <<Root>>), split) }
=============================================================================
