------------------------------ MODULE MCLayer1 ------------------------------
(* Layer1 for packages that make one, two or three detectors report. *)
EXTENDS Layer1

CONSTANTS m1, m2

Plain == [vulnerable |-> FALSE, scope |-> "far", bare |-> "other", segment |-> FALSE,
          nearest |-> "far", new |-> FALSE, maintainers |-> {}, young |-> {},
          downloads |-> "some", stale |-> FALSE, spike |-> FALSE, relicensed |-> FALSE]

Lone == {[Plain EXCEPT !.new = TRUE, !.maintainers = {m1}, !.young = {m1},
                       !.downloads = "low"],
         [Plain EXCEPT !.maintainers = {m1, m2}, !.young = {m1, m2},
                       !.downloads = "popular", !.stale = TRUE],
         [Plain EXCEPT !.vulnerable = TRUE],
         [Plain EXCEPT !.scope = "warn", !.segment = TRUE, !.nearest = "close"]}

Racing == {[Plain EXCEPT !.vulnerable = TRUE, !.spike = TRUE, !.nearest = "warn"],
           [Plain EXCEPT !.relicensed = TRUE, !.scope = "close", !.nearest = "warn"]}

Fanned == Lone \union Racing

VulnerableTypo == {[Plain EXCEPT !.vulnerable = TRUE, !.nearest = "close"]}
=============================================================================
