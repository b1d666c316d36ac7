---- MODULE MCDeployment ----
EXTENDS Deployment
CONSTANTS gram, litre, Pantry, Fruits

MCUnits == <<gram, litre>>
MCParents == <<Pantry>>
MCChildren == <<<<Fruits, Pantry>>>>
MCLinks == <<<<Pantry, gram>>>>
====
