--------------------------- MODULE MC_BaseInstall ---------------------------
(* An instance of BaseInstall for TLC: git and cmake share the dependency  *)
(* lib, which git needs on one architecture only.  The second catalog has  *)
(* a newer cmake and lib; in the third one a formula is disabled and one   *)
(* depends on a formula that is missing.                                   *)
EXTENDS BaseInstall

NoVariations == [tag \in {} |-> {}]

Formula(version, dependencies) ==
    [version |-> version, dependencies |-> dependencies,
     variations |-> NoVariations, disabled |-> FALSE]

FirstCatalog ==
    [f \in {"git", "cmake", "lib"} |->
        CASE f = "git" -> [Formula(1, {}) EXCEPT
                             !.variations = [tag \in {"arm64"} |-> {"lib"}]]
          [] f = "cmake" -> Formula(1, {"lib"})
          [] f = "lib" -> Formula(1, {})]

MCCatalogs ==
    <<FirstCatalog,
      [FirstCatalog EXCEPT !.cmake.version = 2, !.lib.version = 2],
      [FirstCatalog EXCEPT !.lib.disabled = TRUE, !.cmake.dependencies = {"gone"}]>>

MCMachines ==
    {[os |-> "macos", architecture |-> "arm64"], [os |-> "linux", architecture |-> "arm64"]}

Brew(active, identity, layers) ==
    [active |-> active, identity |-> identity, layers |-> layers]

\* Safe; unsafe by the layer of the user; updated; gone.
MCHomebrews ==
    {Brew(1, 1, <<"safe", "unset", "unset", "unset">>),
     Brew(1, 1, <<"safe", "unset", "unset", "unsafe">>),
     Brew(1, 2, <<"unsafe", "safe", "unset", "unset">>),
     Brew(0, 0, <<"safe", "unset", "unset", "unset">>)}

Module(id, variant, options, strategy, pin) ==
    [id |-> id, variant |-> variant, options |-> options,
     policy |-> [strategy |-> strategy, pin |-> pin]]

Empty == [o \in {} |-> TRUE]

MCProfiles ==
    {<<Module("base", "", Empty, "", 0)>>,
     <<Module("frontend_node", "minimal", Empty, "exact", 24),
       Module("base", "minimal", [o \in {"build_tools"} |-> FALSE], "", 0)>>}
=============================================================================
