---------------------------- MODULE MCGeneratorV1 ----------------------------
\* Two revisions with the same content in two parts, and one in a single part.
EXTENDS GeneratorV1

RevisionContents == <<1, 1, 2>>
ContentSizes == <<2, 1>>
Kinds == {"roll", "strategy", "suspend", "delete", "report", "remove", "prune", "failure",
          "restart"}
=============================================================================
