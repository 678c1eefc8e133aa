--------------------------- MODULE MCProducerConsumer ---------------------------
EXTENDS ProducerConsumer, FiniteSetsExt

\* The consumers report, all together, as many items as were produced: the
\* end-of-stream marker each of them took does not count.
CountsAddUp ==
  status = "exited" =>
    MapThenSumSet(LAMBDA c : consumed_count[c] - 1, Consumer) = producers * loops
=============================================================================
