--------------------------- MODULE VulkanPipelines ---------------------------
(***************************************************************************)
(* The calls that compile shaders and make pipelines                       *)
(* (src/src/backends/vulkan/vulkan_pipelines.cpp, vulkan_user_raster.cpp,  *)
(* the caches of vulkan_plan_raster.cpp and vulkan_plan_indirect.cpp).     *)
(***************************************************************************)
EXTENDS VulkanCalls

Part(owner, parts) == {<<owner, part>> : part \in parts}

(* glslc in a child process: three pipes, closed once it was read *)
Pipes == Part("glslc", {"stdin", "stdout", "stderr"})
CompileGlslStage ==
  Make(<<"glslc", "stdin">>) \o Make(<<"glslc", "stdout">>) \o Make(<<"glslc", "stderr">>)
    \o Undoing(Pipes, Attempt) \o Drop(Pipes) \o Attempt

----------------------------------------------------------------------------
(* Compute: a record of its own for each Node, stored when it is complete *)

ComputePipeline(n) == Part(n, {"module", "layout", "pipeline"})

CreateComputePipeline(n) ==
  CompileGlslStage
    \o Undoing(ComputePipeline(n),
               Make(<<n, "module">>) \o Make(<<n, "layout">>) \o Make(<<n, "pipeline">>))
    \o Keep(ComputePipeline(n))

EnsurePipeline(n) == Unless(<<n, "pipeline">>, CreateComputePipeline(n))

EnsureTaskRingPipeline ==
  Unless(<<"ring", "pipeline">>,
         Drop(Part("ring", {"layout", "module"})) \o CreateComputePipeline("ring"))

----------------------------------------------------------------------------
(* The kernels of the facets: members made one by one and kept *)

ShaderModule(o) == Unless(o, CompileGlslStage \o Make(o) \o Keep({o}))

EnsureSampleFacetPipeline(profile) ==
  Member(<<"sample", "set layout">>) \o Member(<<"sample", "layout">>)
    \o ShaderModule(<<"sample", "module">>) \o Member(<<"sample", profile>>)

EnsureStorageFacetPipeline ==
  Member(<<"storage", "set layout">>) \o Member(<<"storage", "layout">>)
    \o Unless(<<"storage", "pipeline">>,
              ShaderModule(<<"storage", "module">>) \o Member(<<"storage", "pipeline">>))

----------------------------------------------------------------------------
(* The raster pass *)

EnsureRasterShaderModules ==
  Member(<<"raster", "set layout">>) \o Member(<<"raster", "layout">>)
    \o ShaderModule(<<"raster", "vertex">>) \o ShaderModule(<<"raster", "fragment">>)

(* The cache of pipeline classes records a key with the pipeline *)
EnsureRasterPipeline ==
  Attempt \o EnsureRasterShaderModules \o Member(<<"raster", "pipeline">>)

----------------------------------------------------------------------------
(* Raster plans *)

PlanRasterCache == Part("plan", {"set layout", "layout", "vertex", "fragment"})

(* Mutant: the cache is built in place, its layout is what marks it ready *)
EnsurePlanRasterCacheInPlace ==
  Member(<<"plan", "set layout">>) \o Member(<<"plan", "layout">>)
    \o ShaderModule(<<"plan", "vertex">>) \o ShaderModule(<<"plan", "fragment">>)

EnsurePlanRasterCache ==
  Unless(<<"plan", "set layout">>,
         Undoing(PlanRasterCache,
                 Make(<<"plan", "set layout">>) \o Make(<<"plan", "layout">>)
                   \o CompileGlslStage \o Make(<<"plan", "vertex">>)
                   \o CompileGlslStage \o Make(<<"plan", "fragment">>))
           \o Keep(PlanRasterCache))

(* What a user's shader compiles to is kept, its modules are made with the *)
(* first pipeline                                                          *)
ValidateUserRasterContract == Attempt
ValidateSpirvDescriptorStage == Attempt

CompileUserRasterGlsl ==
  ValidateUserRasterContract \o CompileGlslStage \o CompileGlslStage
    \o ValidateSpirvDescriptorStage \o ValidateSpirvDescriptorStage

GetOrCompileUserRasterGlsl ==
  ValidateUserRasterContract
    \o Unless(<<"user", "program">>, CompileUserRasterGlsl \o Member(<<"user", "program">>))

UserModules == Part("user", {"vertex", "fragment"})
CreateUserRasterShaderModules ==
  Undoing(UserModules, Make(<<"user", "vertex">>) \o Make(<<"user", "fragment">>))
    \o Keep(UserModules)

EnsurePlanRasterPipeline(program) ==
  EnsurePlanRasterCache \o Member(<<program, "pipeline">>)

EnsurePlanUserRasterPipeline ==
  EnsurePlanRasterCache \o Unless(<<"user", "vertex">>, CreateUserRasterShaderModules)
    \o EnsurePlanRasterPipeline("user")

(* Compiling a plan compiles its user shaders *)
CompilePlanRasterPackage(program) ==
  Attempt \o When(program = "user", EnsurePlanRasterCache \o GetOrCompileUserRasterGlsl)

----------------------------------------------------------------------------
(* The two kernels that write Tier-2 draw commands *)

PlanIndirectCache ==
  Part("bucket", {"module", "layout", "pipeline"}) \cup Part("fill", {"module", "layout", "pipeline"})
EnsurePlanIndirectCache ==
  Unless(<<"bucket", "module">>,
         Undoing(PlanIndirectCache,
                 CompileGlslStage \o Make(<<"bucket", "module">>)
                   \o CompileGlslStage \o Make(<<"fill", "module">>)
                   \o Make(<<"bucket", "layout">>) \o Make(<<"fill", "layout">>)
                   \o Make(<<"bucket", "pipeline">>) \o Make(<<"fill", "pipeline">>))
           \o Keep(PlanIndirectCache))
=============================================================================
