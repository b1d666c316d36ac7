---- MODULE MCRecipeJobs ----
EXTENDS RecipeJobs, TLC
CONSTANTS j1, j2

\* One job posted on the free tier, one on the premium tier.
MCLimit == j1 :> 1 @@ j2 :> 2
Symmetry == Permutations(Workers) \cup Permutations(Coroutines)
====
