--------------------------- MODULE VersionsProofs ---------------------------
(***************************************************************************)
(* The two served versions of the API agree for every specification, and   *)
(* clients of both may write a pipeline in any order and any number of     *)
(* times without undoing each other's writes.  The runs compare members of *)
(* a bounded family; here names, values and opaque fields are arbitrary.   *)
(***************************************************************************)
EXTENDS MCVersions, TLAPS

\* A nil pointer is neither a value nor a struct.
NilIsNoValue ==
    /\ Nil \notin BOOLEAN
    /\ \A f : f = [x \in DOMAIN f |-> f[x]] => f # Nil

-----------------------------------------------------------------------------

\* No struct of the API is a nil pointer.
LEMMA StructsAreNotNil ==
    ASSUME NilIsNoValue
    PROVE  /\ TRUE # Nil /\ FALSE # Nil
           /\ \A a, b : AD!Selector(a, b) # Nil
           /\ \A a, b : [value |-> a, valueFrom |-> b] # Nil
           /\ \A a, b : [disabled |-> a, namespaces |-> b] # Nil
           /\ \A a, b : [enabled |-> a, namespaces |-> b] # Nil
           /\ \A a, b : [spec |-> a, generation |-> b] # Nil
           /\ \A a, b, c : AD!AlphaSelector(a, b, c) # Nil
           /\ \A a, b, c : [host |-> a, request |-> b, tls |-> c] # Nil
           /\ \A a, b, c, d, e, f :
                [protocol |-> a, endpoint |-> b, path |-> c, authentication |-> d,
                 headers |-> e, tls |-> f] # Nil
           /\ \A a, b, c, d, e, f, g :
                [protocol |-> a, endpoint |-> b, path |-> c, authentication |-> d,
                 headers |-> e, tls |-> f, compression |-> g] # Nil
           /\ \A a, b, c, d, e, f :
                [enabled |-> a, namespaces |-> b, containers |-> c, keepAnnotations |-> d,
                 dropLabels |-> e, keepOriginalBody |-> f] # Nil
BY Zenon DEF NilIsNoValue, AD!Selector, AD!AlphaSelector


LEMMA Flags ==
    ASSUME NilIsNoValue
    PROVE  AD!On(TRUE) /\ ~AD!On(FALSE) /\ ~AD!On(Nil)
<1>1. TRUE # FALSE
  BY SMT
<1>2. QED
  BY <1>1, Zenon DEF NilIsNoValue, AD!On

\* A disabled input does nothing.
LEMMA DisabledInput ==
    ASSUME NilIsNoValue, NEW i, i.enabled = FALSE, NEW x
    PROVE  Does(i, x) = Nil
<1>1. TRUE # FALSE
  BY SMT
<1>2. QED
  BY <1>1, Zenon DEF Does, AD!InputEnabled, AD!On

\* Defaulting the protocol of an output and converting it may be swapped.
LEMMA OutputsAgree ==
    ASSUME NEW o, IsAlphaOTLPOutput(o)
    PROVE  AD!OTLPOutputToBeta(AD!DefaultProtocol(o)) = AD!DefaultProtocol(AD!OTLPOutputToBeta(o))
BY Zenon DEF IsAlphaOTLPOutput, AD!OTLPOutputToBeta, AD!DefaultProtocol, AD!ValueType



LEMMA ProtocolOnce ==
    ASSUME NEW o
    PROVE  AD!DefaultProtocol(AD!DefaultProtocol(o)) = AD!DefaultProtocol(o)
BY Zenon DEF AD!DefaultProtocol

LEMMA ProtocolShape ==
    ASSUME NEW o, IsAlphaOTLPOutput(o)
    PROVE  IsAlphaOTLPOutput(AD!DefaultProtocol(o))
BY Zenon DEF IsAlphaOTLPOutput, IsValue, AD!DefaultProtocol

\* The selectors that the defaulters write survive the conversion.
LEMMA DefaultSelectors ==
    ASSUME NilIsNoValue
    PROVE  /\ AD!Sanitized(AD!AnyNamespace) = AD!AnyNamespace
           /\ AD!Sanitized(AD!ExcludeSystem) = AD!ExcludeSystem
           /\ AD!AnyNamespace # Nil /\ AD!ExcludeSystem # Nil
           /\ \A s : AD!Sanitized(s) # Nil
           /\ AD!sanitizeNamespaceNames({}) = {}
<1>1. /\ AD!Sanitized(AD!AnyNamespace) = AD!AnyNamespace
      /\ AD!Sanitized(AD!ExcludeSystem) = AD!ExcludeSystem
      /\ AD!sanitizeNamespaceNames({}) = {}
  BY NamesAssumption DEF AD!Sanitized, AD!AnyNamespace, AD!ExcludeSystem, AD!Selector, AD!sanitizeNamespaceNames
<1>2. QED
  BY <1>1, StructsAreNotNil, Zenon DEF AD!Sanitized, AD!AnyNamespace, AD!ExcludeSystem

\* The same for an OTLP input; the versions may differ on a disabled one.
LEMMA OTLPInputsAgree ==
    ASSUME NilIsNoValue, NEW i, i = Nil \/ IsAlphaOTLPInput(i)
    PROVE  Does(AD!OTLPInputToBeta(AD!OTLPInputDefaultAlpha(i)), Nil) =
             Does(AD!OTLPInputDefaultBeta(AD!OTLPInputToBeta(i)), Nil)
<1> DEFINE a == AD!OTLPInputToBeta(AD!OTLPInputDefaultAlpha(i))
           b == AD!OTLPInputDefaultBeta(AD!OTLPInputToBeta(i))
<1>1. ASSUME NEW n, NEW d \in BOOLEAN
      PROVE  LET in == [disabled |-> d, namespaces |-> n]
                 s == IF n = Nil THEN Nil ELSE AD!Sanitized(n)
             IN  /\ d => AD!OTLPInputToBeta(in) = [enabled |-> FALSE, namespaces |-> s]
                 /\ ~d => AD!OTLPInputToBeta(in) = [enabled |-> TRUE, namespaces |-> s]
  BY StructsAreNotNil, Zenon DEF AD!OTLPInputToBeta
<1>2. ASSUME NEW n
      PROVE  /\ AD!OTLPInputDefaultBeta([enabled |-> TRUE, namespaces |-> n]) =
                  [enabled |-> TRUE, namespaces |-> AD!Given(n, AD!AnyNamespace)]
             /\ AD!OTLPInputDefaultBeta([enabled |-> FALSE, namespaces |-> n]) =
                  [enabled |-> FALSE, namespaces |-> n]
  BY StructsAreNotNil, Zenon DEF AD!OTLPInputDefaultBeta, AD!Given
<1>3. CASE i = Nil
  <2>1. AD!OTLPInputDefaultAlpha(i) = [disabled |-> FALSE, namespaces |-> AD!AnyNamespace]
    BY <1>3, Zenon DEF AD!OTLPInputDefaultAlpha, AD!Given
  <2>2. a = [enabled |-> TRUE, namespaces |-> AD!AnyNamespace]
    BY <1>1, <2>1, DefaultSelectors, Zenon
  <2>3. b = [enabled |-> TRUE, namespaces |-> AD!AnyNamespace]
    BY <1>3, StructsAreNotNil, Zenon DEF AD!OTLPInputToBeta, AD!OTLPInputDefaultBeta, AD!Given
  <2>4. QED
    BY <2>2, <2>3, Zenon
<1>4. CASE IsAlphaOTLPInput(i)
  <2> DEFINE n == AD!Given(i.namespaces, AD!AnyNamespace)
             s == IF i.namespaces = Nil THEN Nil ELSE AD!Sanitized(i.namespaces)
  <2>1. i # Nil /\ i = [disabled |-> i.disabled, namespaces |-> i.namespaces] /\ i.disabled \in BOOLEAN
    BY <1>4, StructsAreNotNil, Zenon DEF IsAlphaOTLPInput
  <2>2. AD!OTLPInputDefaultAlpha(i) = [disabled |-> i.disabled, namespaces |-> n]
    BY <2>1, Zenon DEF AD!OTLPInputDefaultAlpha, AD!Given
  <2>3. n # Nil /\ AD!Given(s, AD!AnyNamespace) = AD!Sanitized(n)
    BY DefaultSelectors, Zenon DEF AD!Given
  <2>4. CASE i.disabled
    <3>1. a = [enabled |-> FALSE, namespaces |-> AD!Sanitized(n)]
      BY <1>1, <2>1, <2>2, <2>3, <2>4, Zenon
    <3>2. b = [enabled |-> FALSE, namespaces |-> s]
      BY <1>1, <1>2, <2>1, <2>4, Zenon
    <3>3. QED
      <4> HIDE DEF a, b, n, s
      <4>1. Does(a, Nil) = Nil /\ Does(b, Nil) = Nil
        BY <3>1, <3>2, DisabledInput, Zenon
      <4>2. QED
        BY <4>1, Zenon DEF a, b
  <2>5. CASE ~i.disabled
    <3>1. a = [enabled |-> TRUE, namespaces |-> AD!Sanitized(n)]
      BY <1>1, <2>1, <2>2, <2>3, <2>5, Zenon
    <3>2. AD!OTLPInputToBeta(i) = [enabled |-> TRUE, namespaces |-> s]
      BY <1>1, <2>1, <2>5, Zenon
    <3>3. b = [enabled |-> TRUE, namespaces |-> AD!Given(s, AD!AnyNamespace)]
      BY <1>2, <3>2, Zenon
    <3>4. QED
      BY <2>3, <3>1, <3>3, Zenon
  <2>6. QED
    BY <2>4, <2>5, Zenon
<1>5. QED
  BY <1>3, <1>4, Zenon

LEMMA OTLPInputOnce ==
    ASSUME NilIsNoValue, NEW i
    PROVE  /\ AD!OTLPInputDefaultAlpha(AD!OTLPInputDefaultAlpha(i)) = AD!OTLPInputDefaultAlpha(i)
           /\ AD!OTLPInputDefaultBeta(AD!OTLPInputDefaultBeta(i)) = AD!OTLPInputDefaultBeta(i)
BY StructsAreNotNil, Zenon DEF AD!OTLPInputDefaultAlpha, AD!OTLPInputDefaultBeta, AD!Given, AD!AnyNamespace

-----------------------------------------------------------------------------
\* The application input of v1alpha1, the runtime input of v1beta1.

\* The fields of a given input, defaulted and converted.
LEMMA ApplicationFields ==
    ASSUME NilIsNoValue, NEW a, a # Nil
    PROVE  LET d == AD!ApplicationDefaults(a)
           IN  /\ d # Nil
               /\ d.enabled = AD!Given(a.enabled, TRUE)
               /\ d.keepOriginalBody = AD!Given(a.keepOriginalBody, TRUE)
               /\ d.keepAnnotations = a.keepAnnotations /\ d.dropLabels = a.dropLabels
               /\ d.namespaces = a.namespaces /\ d.containers = a.containers
<1>1. AD!Given(a, AD!NewApplicationInput) = a
  BY Zenon DEF AD!Given
<1>2. QED
  BY <1>1, Zenon DEF NilIsNoValue, AD!ApplicationDefaults

LEMMA RuntimeFields ==
    ASSUME NilIsNoValue, NEW r, r # Nil
    PROVE  LET d == AD!RuntimeDefaults(r)
               on == AD!Given(r.enabled, TRUE)
           IN  /\ d # Nil
               /\ d.enabled = on
               /\ d.keepOriginalBody = IF on THEN AD!Given(r.keepOriginalBody, TRUE) ELSE r.keepOriginalBody
               /\ d.keepAnnotations = r.keepAnnotations /\ d.dropLabels = r.dropLabels
               /\ d.namespaces = IF on THEN AD!Given(r.namespaces, AD!ExcludeSystem) ELSE r.namespaces
               /\ d.containers = r.containers
<1>1. AD!Given(r, AD!NewRuntimeInput) = r
  BY Zenon DEF AD!Given
<1>2. QED
  BY <1>1, Zenon DEF NilIsNoValue, AD!RuntimeDefaults, AD!RuntimeWith

LEMMA ConvertedFields ==
    ASSUME NilIsNoValue, NEW a, a # Nil
    PROVE  LET r == AD!ApplicationToRuntime(a)
           IN  /\ r # Nil
               /\ r.enabled = a.enabled /\ r.keepOriginalBody = a.keepOriginalBody
               /\ r.keepAnnotations = a.keepAnnotations /\ r.dropLabels = a.dropLabels
               /\ r.namespaces = AD!NamespacesToBeta(a.namespaces) /\ r.namespaces # Nil
               /\ r.containers = AD!ContainersToBeta(a.containers)
<1>1. AD!ApplicationToRuntime(a) =
        AD!RuntimeInput(a, AD!NamespacesToBeta(a.namespaces), AD!ContainersToBeta(a.containers))
  BY Zenon DEF AD!ApplicationToRuntime
<1>2. AD!NamespacesToBeta(a.namespaces) # Nil
  BY StructsAreNotNil, Zenon DEF AD!NamespacesToBeta
<1>3. AD!ApplicationToRuntime(a) # Nil
  BY <1>1, Zenon DEF NilIsNoValue, AD!RuntimeInput
<1> DEFINE r == AD!ApplicationToRuntime(a)
<1> HIDE DEF r
<1>4. /\ r.enabled = a.enabled /\ r.keepOriginalBody = a.keepOriginalBody
      /\ r.keepAnnotations = a.keepAnnotations /\ r.dropLabels = a.dropLabels
      /\ r.namespaces = AD!NamespacesToBeta(a.namespaces)
      /\ r.containers = AD!ContainersToBeta(a.containers)
  BY <1>1 DEF AD!RuntimeInput, r
<1>5. QED
  BY <1>2, <1>3, <1>4, Zenon DEF r

\* The defaults of an input that is not given.
LEMMA MissingInput ==
    ASSUME NilIsNoValue
    PROVE  LET c == AD!ApplicationToRuntime(AD!ApplicationDefaults(Nil))
               r == AD!RuntimeDefaults(Nil)
           IN  /\ AD!ApplicationDefaults(Nil) = AD!NewApplicationInput
               /\ c = r
               /\ c # Nil /\ c.enabled = TRUE /\ c.keepAnnotations = Nil /\ c.dropLabels = Nil
               /\ c.keepOriginalBody = TRUE /\ c.containers = Nil
               /\ c.namespaces = AD!ExcludeSystem
<1> DEFINE n == AD!RuntimeInput(AD!NewRuntimeInput, AD!ExcludeSystem, Nil)
<1>1. AD!ApplicationDefaults(Nil) = AD!NewApplicationInput
  BY StructsAreNotNil, Zenon DEF AD!ApplicationDefaults, AD!Given, AD!NewApplicationInput
<1>2. AD!NewApplicationInput # Nil
  BY Zenon DEF NilIsNoValue, AD!NewApplicationInput
<1>3. AD!NamespacesToBeta(AD!NewApplicationInput.namespaces) = AD!ExcludeSystem
  <2> DEFINE ns == AD!NewApplicationInput.namespaces
  <2>1. ns.include = {} /\ ns.exclude = {} /\ ns.system = FALSE
    BY Zenon DEF AD!NewApplicationInput, AD!AlphaSelector
  <2> HIDE DEF ns
  <2>2. AD!NamespacesToBeta(ns) = AD!ExcludeSystem
    BY <2>1, DefaultSelectors DEF AD!NamespacesToBeta, AD!ExcludeSystem
  <2>3. QED
    BY <2>2, Zenon DEF ns
<1>4. AD!ContainersToBeta(AD!NewApplicationInput.containers) = Nil
  BY Zenon DEF AD!ContainersToBeta, AD!NewApplicationInput, AD!Selector
<1>5. AD!ApplicationToRuntime(AD!NewApplicationInput) =
        AD!RuntimeInput(AD!NewApplicationInput, AD!ExcludeSystem, Nil)
  BY <1>2, <1>3, <1>4, Zenon DEF AD!ApplicationToRuntime
<1>6. AD!RuntimeInput(AD!NewApplicationInput, AD!ExcludeSystem, Nil) = n
  BY Zenon DEF AD!RuntimeInput, AD!NewApplicationInput, AD!NewRuntimeInput
<1>7. AD!RuntimeDefaults(Nil) = n
  <2>1. AD!Given(Nil, AD!NewRuntimeInput) = AD!NewRuntimeInput
    BY Zenon DEF AD!Given
  <2>2. AD!NewRuntimeInput.enabled = TRUE /\ AD!NewRuntimeInput.namespaces = Nil
        /\ AD!NewRuntimeInput.keepOriginalBody = TRUE /\ AD!NewRuntimeInput.containers = Nil
    BY Zenon DEF AD!NewRuntimeInput
  <2>3. AD!Given(TRUE, TRUE) = TRUE /\ AD!Given(Nil, AD!ExcludeSystem) = AD!ExcludeSystem
    BY Zenon DEF AD!Given
  <2>4. QED
    BY <2>1, <2>2, <2>3, Zenon DEF AD!RuntimeDefaults, AD!RuntimeWith, AD!RuntimeInput
<1>8. n # Nil /\ n.enabled = TRUE /\ n.keepAnnotations = Nil /\ n.dropLabels = Nil
      /\ n.keepOriginalBody = TRUE /\ n.containers = Nil /\ n.namespaces = AD!ExcludeSystem
  BY Zenon DEF NilIsNoValue, AD!RuntimeInput, AD!NewRuntimeInput
<1>9. QED
  BY <1>1, <1>5, <1>6, <1>7, <1>8, Zenon

\* What the conversion makes of an application input, defaulted before or after.
LEMMA RuntimeAgrees ==
    ASSUME NilIsNoValue, NEW a, a = Nil \/ IsApplication(a)
    PROVE  LET d == AD!ApplicationDefaults(a)
               c == AD!ApplicationToRuntime(d)
               r == AD!RuntimeDefaults(AD!ApplicationToRuntime(a))
           IN  /\ c # Nil /\ r # Nil /\ d # Nil
               /\ c.enabled = r.enabled /\ c.enabled = d.enabled /\ c.enabled \in BOOLEAN
               /\ c.keepAnnotations = r.keepAnnotations /\ c.keepAnnotations = d.keepAnnotations
               /\ c.dropLabels = r.dropLabels /\ c.dropLabels = d.dropLabels
               /\ c.containers = r.containers
               /\ c.namespaces = r.namespaces
               /\ c.namespaces = AD!NamespacesToBeta(d.namespaces)
               /\ c.enabled => c.keepOriginalBody = r.keepOriginalBody
<1> DEFINE d == AD!ApplicationDefaults(a)
           c == AD!ApplicationToRuntime(d)
           t == AD!ApplicationToRuntime(a)
           r == AD!RuntimeDefaults(t)
<1>1. CASE a = Nil
  <2>1. t = Nil
    BY <1>1, Zenon DEF AD!ApplicationToRuntime
  <2>2. d # Nil
    BY <1>1, MissingInput, Zenon DEF NilIsNoValue, AD!NewApplicationInput
  <2>3. c = r /\ c # Nil /\ c.enabled = TRUE /\ c.keepAnnotations = Nil /\ c.dropLabels = Nil
    BY <1>1, <2>1, MissingInput, Zenon
  <2>4. d.enabled = TRUE /\ d.keepAnnotations = Nil /\ d.dropLabels = Nil
    <3>1. d = AD!NewApplicationInput
      BY <1>1, MissingInput, Zenon
    <3> HIDE DEF d
    <3>2. QED
      BY <3>1, Zenon DEF AD!NewApplicationInput
  <2>5. c.namespaces = AD!NamespacesToBeta(d.namespaces)
    BY <2>2, ConvertedFields, Zenon
  <2>6. QED
    BY <2>2, <2>3, <2>4, <2>5, Zenon
<1>2. CASE IsApplication(a)
  <2>1. a # Nil
    BY <1>2, Zenon DEF IsApplication, AD!RuntimeInput, NilIsNoValue
  <2>2. /\ d # Nil
        /\ d.enabled = AD!Given(a.enabled, TRUE)
        /\ d.keepOriginalBody = AD!Given(a.keepOriginalBody, TRUE)
        /\ d.keepAnnotations = a.keepAnnotations /\ d.dropLabels = a.dropLabels
        /\ d.namespaces = a.namespaces /\ d.containers = a.containers
    BY <2>1, ApplicationFields, Zenon
  <2>3. /\ t # Nil
        /\ t.enabled = a.enabled /\ t.keepOriginalBody = a.keepOriginalBody
        /\ t.keepAnnotations = a.keepAnnotations /\ t.dropLabels = a.dropLabels
        /\ t.namespaces = AD!NamespacesToBeta(a.namespaces) /\ t.namespaces # Nil
        /\ t.containers = AD!ContainersToBeta(a.containers)
    BY <2>1, ConvertedFields, Zenon
  <2>4. /\ c # Nil
        /\ c.enabled = d.enabled /\ c.keepOriginalBody = d.keepOriginalBody
        /\ c.keepAnnotations = d.keepAnnotations /\ c.dropLabels = d.dropLabels
        /\ c.namespaces = AD!NamespacesToBeta(d.namespaces)
        /\ c.containers = AD!ContainersToBeta(d.containers)
    BY <2>2, ConvertedFields, Zenon
  <2>5. LET on == AD!Given(t.enabled, TRUE)
        IN  /\ r # Nil
            /\ r.enabled = on
            /\ r.keepOriginalBody = IF on THEN AD!Given(t.keepOriginalBody, TRUE) ELSE t.keepOriginalBody
            /\ r.keepAnnotations = t.keepAnnotations /\ r.dropLabels = t.dropLabels
            /\ r.namespaces = IF on THEN AD!Given(t.namespaces, AD!ExcludeSystem) ELSE t.namespaces
            /\ r.containers = t.containers
    BY <2>3, RuntimeFields, Zenon
  <2>6. AD!Given(a.enabled, TRUE) \in BOOLEAN
    BY <1>2, Zenon DEF IsApplication, IsFlag, AD!Given
  <2>7. AD!Given(t.namespaces, AD!ExcludeSystem) = t.namespaces
    BY <2>3, Zenon DEF AD!Given
  <2> HIDE DEF d, c, t, r
  <2>8. /\ c # Nil /\ r # Nil /\ d # Nil
        /\ c.enabled = r.enabled /\ c.enabled = d.enabled /\ c.enabled \in BOOLEAN
        /\ c.keepAnnotations = r.keepAnnotations /\ c.keepAnnotations = d.keepAnnotations
        /\ c.dropLabels = r.dropLabels /\ c.dropLabels = d.dropLabels
        /\ c.containers = r.containers
        /\ c.namespaces = r.namespaces
        /\ c.namespaces = AD!NamespacesToBeta(d.namespaces)
        /\ c.enabled => c.keepOriginalBody = r.keepOriginalBody
    BY <2>2, <2>3, <2>4, <2>5, <2>6, <2>7, Zenon
  <2>9. QED
    BY <2>8, Zenon DEF d, c, t, r
<1>3. QED
  BY <1>1, <1>2, Zenon

\* Defaulting twice is defaulting once.
LEMMA InputOnce ==
    ASSUME NilIsNoValue, NEW a
    PROVE  /\ AD!ApplicationDefaults(AD!ApplicationDefaults(a)) = AD!ApplicationDefaults(a)
           /\ AD!RuntimeDefaults(AD!RuntimeDefaults(a)) = AD!RuntimeDefaults(a)
<1>1. ASSUME NEW v, NEW w, w # Nil PROVE AD!Given(AD!Given(v, w), w) = AD!Given(v, w)
  BY Zenon DEF AD!Given
<1>2. AD!ApplicationDefaults(AD!ApplicationDefaults(a)) = AD!ApplicationDefaults(a)
  <2> DEFINE d == AD!ApplicationDefaults(a)
             g == AD!Given(a, AD!NewApplicationInput)
  <2>1. d # Nil
    BY Zenon DEF AD!ApplicationDefaults, NilIsNoValue
  <2>2. d = [enabled |-> AD!Given(g.enabled, TRUE), keepAnnotations |-> g.keepAnnotations,
             dropLabels |-> g.dropLabels, keepOriginalBody |-> AD!Given(g.keepOriginalBody, TRUE),
             namespaces |-> g.namespaces, containers |-> g.containers]
    BY Zenon DEF AD!ApplicationDefaults
  <2>3. AD!Given(d, AD!NewApplicationInput) = d
    BY <2>1, Zenon DEF AD!Given
  <2> HIDE DEF d, g
  <2>4. AD!ApplicationDefaults(d) =
          [enabled |-> AD!Given(d.enabled, TRUE), keepAnnotations |-> d.keepAnnotations,
           dropLabels |-> d.dropLabels, keepOriginalBody |-> AD!Given(d.keepOriginalBody, TRUE),
           namespaces |-> d.namespaces, containers |-> d.containers]
    BY <2>3, Zenon DEF AD!ApplicationDefaults
  <2>5. AD!ApplicationDefaults(d) = d
    BY <1>1, <2>2, <2>4, Flags, StructsAreNotNil, Zenon
  <2>6. QED
    BY <2>5, Zenon DEF d
<1>3. AD!RuntimeDefaults(AD!RuntimeDefaults(a)) = AD!RuntimeDefaults(a)
  <2> DEFINE g == AD!Given(a, AD!NewRuntimeInput)
             on == AD!Given(g.enabled, TRUE)
             k == IF on THEN AD!Given(g.keepOriginalBody, TRUE) ELSE g.keepOriginalBody
             n == IF on THEN AD!Given(g.namespaces, AD!ExcludeSystem) ELSE g.namespaces
             d == AD!RuntimeDefaults(a)
  <2>1. d = [enabled |-> on, keepAnnotations |-> g.keepAnnotations, dropLabels |-> g.dropLabels,
             keepOriginalBody |-> k, namespaces |-> n, containers |-> g.containers]
    BY Zenon DEF AD!RuntimeDefaults, AD!RuntimeWith
  <2>2. d # Nil
    BY Zenon DEF AD!RuntimeDefaults, AD!RuntimeWith, NilIsNoValue
  <2>3. AD!Given(on, TRUE) = on
    BY <1>1, StructsAreNotNil, Zenon
  <2>4. /\ k = IF on THEN AD!Given(k, TRUE) ELSE k
        /\ n = IF on THEN AD!Given(n, AD!ExcludeSystem) ELSE n
    BY <1>1, StructsAreNotNil, DefaultSelectors, Zenon
  <2>5. AD!Given(d, AD!NewRuntimeInput) = d
    BY <2>2, Zenon DEF AD!Given
  <2> HIDE DEF g, on, k, n, d
  <2>6. AD!RuntimeDefaults(d) = AD!RuntimeWith(d, AD!Given(d.enabled, TRUE),
            IF AD!Given(d.enabled, TRUE) THEN AD!Given(d.namespaces, AD!ExcludeSystem) ELSE d.namespaces)
    BY <2>5, Zenon DEF AD!RuntimeDefaults
  <2>7. /\ d.enabled = on /\ d.keepAnnotations = g.keepAnnotations /\ d.dropLabels = g.dropLabels
        /\ d.keepOriginalBody = k /\ d.namespaces = n /\ d.containers = g.containers
    BY <2>1, Zenon
  <2>8. AD!RuntimeDefaults(d) = AD!RuntimeWith(d, on, n)
    BY <2>3, <2>4, <2>6, <2>7, Zenon
  <2>9. AD!RuntimeWith(d, on, n) = d
    BY <2>1, <2>4, <2>7, Zenon DEF AD!RuntimeWith
  <2>10. QED
    BY <2>8, <2>9, Zenon DEF d
<1>4. QED
  BY <1>2, <1>3, Zenon

\* The namespaces of an application input survive the conversion.
LEMMA NamespacesAgree ==
    ASSUME NEW ns, IsAlphaNamespaces(ns)
    PROVE  /\ AD!SelectorAdmitted(AD!NamespacesToBeta(ns))
           /\ (ns.include # {} => ns.include \cap ValidNames # {})
                => Chosen(AD!NamespacesToBeta(ns)) = Documented(ns)
<1> DEFINE i == ns.include \cap ValidNames
           e == IF ns.include = {} /\ ns.exclude = {} /\ ~ns.system THEN SystemNamespaces
                ELSE ns.exclude \cap ValidNames
           s == AD!NamespacesToBeta(ns)
<1>1. s = [include |-> i, exclude |-> e]
  BY Zenon DEF AD!NamespacesToBeta, AD!Selector, AD!sanitizeNamespaceNames
<1>2. s.include = i /\ s.exclude = e
  <2> HIDE DEF s, i, e
  <2>1. QED  BY <1>1, Zenon
<1>3. i = {} \/ e = {}
  BY DEF IsAlphaNamespaces
<1>4. ASSUME ns.include # {} => i # {}
      PROVE  Chosen(s) = Documented(ns)
  <2>1. Chosen(s) = {n \in Cluster : (i = {} \/ n \in i) /\ n \notin e}
    BY <1>2, Zenon DEF Chosen
  <2>2. {n \in Cluster : (i = {} \/ n \in i) /\ n \notin e} = Documented(ns)
    BY <1>4, NamesAssumption DEF Documented, IsAlphaNamespaces
  <2>3. QED
    BY <2>1, <2>2, Zenon
<1>5. AD!SelectorAdmitted(s)
  BY <1>2, <1>3, Zenon DEF AD!SelectorAdmitted
<1>6. QED
  BY <1>4, <1>5, Zenon

-----------------------------------------------------------------------------
\* A LogPipeline.

LEMMA LogAlphaFields ==
    ASSUME NEW s
    PROVE  LET d == AD!LogPipelineDefaultAlpha(s)
           IN  /\ d.input.application = AD!ApplicationDefaults(s.input.application)
               /\ d.input.otlp = IF s.output.otlp = Nil THEN s.input.otlp
                                 ELSE AD!OTLPInputDefaultAlpha(s.input.otlp)
               /\ d.output.custom = s.output.custom /\ d.output.http = s.output.http
               /\ d.output.otlp = IF s.output.otlp = Nil THEN Nil ELSE AD!DefaultProtocol(s.output.otlp)
               /\ d.filters = s.filters /\ d.files = s.files /\ d.variables = s.variables
               /\ d.transform = s.transform /\ d.filter = s.filter
BY Zenon DEF AD!LogPipelineDefaultAlpha, AD!LogPipelineWith

LEMMA LogBetaFields ==
    ASSUME NEW s
    PROVE  LET d == AD!LogPipelineDefaultBeta(s)
           IN  /\ d.input.runtime = AD!RuntimeDefaults(s.input.runtime)
               /\ d.input.otlp = IF s.output.otlp = Nil THEN s.input.otlp
                                 ELSE AD!OTLPInputDefaultBeta(s.input.otlp)
               /\ d.output.custom = s.output.custom /\ d.output.http = s.output.http
               /\ d.output.otlp = IF s.output.otlp = Nil THEN Nil ELSE AD!DefaultProtocol(s.output.otlp)
               /\ d.filters = s.filters /\ d.files = s.files /\ d.variables = s.variables
               /\ d.transform = s.transform /\ d.filter = s.filter
BY Zenon DEF AD!LogPipelineDefaultBeta, AD!LogPipelineWith

LEMMA LogConvertedFields ==
    ASSUME NEW s
    PROVE  LET d == AD!LogPipelineSpecToBeta(s)
           IN  /\ d.input.runtime = AD!ApplicationToRuntime(s.input.application)
               /\ d.input.otlp = AD!OTLPInputToBeta(s.input.otlp)
               /\ d.output.custom = s.output.custom
               /\ d.output.http = IF s.output.http = Nil THEN Nil
                                  ELSE AD!FluentBitHTTPOutputToBeta(s.output.http)
               /\ d.output.otlp = IF s.output.otlp = Nil THEN Nil ELSE AD!OTLPOutputToBeta(s.output.otlp)
               /\ d.filters = s.filters /\ d.files = s.files /\ d.variables = s.variables
               /\ d.transform = s.transform /\ d.filter = s.filter
BY Zenon DEF AD!LogPipelineSpecToBeta, AD!LogPipelineInputToBeta, AD!LogPipelineOutputToBeta

\* Two runtime inputs with the same fields do the same.
LEMMA SameRuntime ==
    ASSUME NilIsNoValue, NEW c, NEW r, c # Nil, r # Nil, c.enabled = r.enabled, c.enabled \in BOOLEAN,
           c.keepAnnotations = r.keepAnnotations, c.dropLabels = r.dropLabels,
           c.enabled => c.namespaces = r.namespaces /\ c.keepOriginalBody = r.keepOriginalBody
    PROVE  Does(c, [f \in {"keepOriginalBody", "keepAnnotations", "dropLabels"} |-> c[f]]) =
             Does(r, [f \in {"keepOriginalBody", "keepAnnotations", "dropLabels"} |-> r[f]])
<1>1. CASE c.enabled
  <2>1. [f \in {"keepOriginalBody", "keepAnnotations", "dropLabels"} |-> c[f]] =
          [f \in {"keepOriginalBody", "keepAnnotations", "dropLabels"} |-> r[f]]
    BY <1>1
  <2>2. QED
    BY <1>1, <2>1, Zenon DEF Does, AD!InputEnabled, Chosen
<1>2. CASE ~c.enabled
  BY <1>2, DisabledInput, Zenon
<1>3. QED
  BY <1>1, <1>2, Zenon

\* Two LogPipelines that differ in a disabled input at most have the same effect.
LEMMA SameLogEffect ==
    ASSUME NilIsNoValue, NEW c, NEW b, c.input.runtime # Nil, b.input.runtime # Nil,
           Does(c.input.runtime,
                [f \in {"keepOriginalBody", "keepAnnotations", "dropLabels"} |-> c.input.runtime[f]]) =
             Does(b.input.runtime,
                [f \in {"keepOriginalBody", "keepAnnotations", "dropLabels"} |-> b.input.runtime[f]]),
           AD!Given(c.input.runtime.containers, Pick(Nil, Nil)) =
             AD!Given(b.input.runtime.containers, Pick(Nil, Nil)),
           Does(c.input.otlp, Nil) = Does(b.input.otlp, Nil),
           c.output.custom = b.output.custom, c.output.http = b.output.http,
           \/ c.output.otlp = Nil /\ b.output.otlp = Nil
           \/ /\ c.output.otlp # Nil /\ b.output.otlp # Nil
              /\ WithoutCompression(c.output.otlp) = WithoutCompression(b.output.otlp),
           c.filters = b.filters, c.files = b.files, c.variables = b.variables,
           c.transform = b.transform, c.filter = b.filter
    PROVE  Effect(AD!Log, c) = Effect(AD!Log, b)
BY Zenon DEF Effect, AD!Given

\* A LogPipeline s, defaulted (d), then converted (c); converted (t), then defaulted (b).
Paths(s, d, c, t, b) ==
    /\ d = AD!LogPipelineDefaultAlpha(s) /\ c = AD!LogPipelineSpecToBeta(d)
    /\ t = AD!LogPipelineSpecToBeta(s) /\ b = AD!LogPipelineDefaultBeta(t)

LEMMA PathFields ==
    ASSUME NEW s, NEW d, NEW c, NEW t, NEW b, Paths(s, d, c, t, b)
    PROVE  /\ d.input.application = AD!ApplicationDefaults(s.input.application)
           /\ c.input.runtime = AD!ApplicationToRuntime(d.input.application)
           /\ t.input.runtime = AD!ApplicationToRuntime(s.input.application)
           /\ b.input.runtime = AD!RuntimeDefaults(t.input.runtime)
           /\ d.input.otlp = IF s.output.otlp = Nil THEN s.input.otlp
                             ELSE AD!OTLPInputDefaultAlpha(s.input.otlp)
           /\ c.input.otlp = AD!OTLPInputToBeta(d.input.otlp)
           /\ t.input.otlp = AD!OTLPInputToBeta(s.input.otlp)
           /\ b.input.otlp = IF t.output.otlp = Nil THEN t.input.otlp
                             ELSE AD!OTLPInputDefaultBeta(t.input.otlp)
           /\ d.output.http = s.output.http
           /\ c.output.http = IF s.output.http = Nil THEN Nil
                              ELSE AD!FluentBitHTTPOutputToBeta(s.output.http)
           /\ b.output.http = c.output.http
           /\ d.output.otlp = IF s.output.otlp = Nil THEN Nil ELSE AD!DefaultProtocol(s.output.otlp)
           /\ c.output.otlp = IF d.output.otlp = Nil THEN Nil ELSE AD!OTLPOutputToBeta(d.output.otlp)
           /\ t.output.otlp = IF s.output.otlp = Nil THEN Nil ELSE AD!OTLPOutputToBeta(s.output.otlp)
           /\ b.output.otlp = IF t.output.otlp = Nil THEN Nil ELSE AD!DefaultProtocol(t.output.otlp)
<1>1. /\ d.input.application = AD!ApplicationDefaults(s.input.application)
      /\ d.input.otlp = IF s.output.otlp = Nil THEN s.input.otlp
                        ELSE AD!OTLPInputDefaultAlpha(s.input.otlp)
      /\ d.output.http = s.output.http
      /\ d.output.otlp = IF s.output.otlp = Nil THEN Nil ELSE AD!DefaultProtocol(s.output.otlp)
  BY LogAlphaFields, Zenon DEF Paths
<1>2. /\ c.input.runtime = AD!ApplicationToRuntime(d.input.application)
      /\ c.input.otlp = AD!OTLPInputToBeta(d.input.otlp)
      /\ c.output.http = IF d.output.http = Nil THEN Nil ELSE AD!FluentBitHTTPOutputToBeta(d.output.http)
      /\ c.output.otlp = IF d.output.otlp = Nil THEN Nil ELSE AD!OTLPOutputToBeta(d.output.otlp)
  BY LogConvertedFields, Zenon DEF Paths
<1>3. /\ t.input.runtime = AD!ApplicationToRuntime(s.input.application)
      /\ t.input.otlp = AD!OTLPInputToBeta(s.input.otlp)
      /\ t.output.http = IF s.output.http = Nil THEN Nil ELSE AD!FluentBitHTTPOutputToBeta(s.output.http)
      /\ t.output.otlp = IF s.output.otlp = Nil THEN Nil ELSE AD!OTLPOutputToBeta(s.output.otlp)
  BY LogConvertedFields, Zenon DEF Paths
<1>4. /\ b.input.runtime = AD!RuntimeDefaults(t.input.runtime)
      /\ b.input.otlp = IF t.output.otlp = Nil THEN t.input.otlp
                        ELSE AD!OTLPInputDefaultBeta(t.input.otlp)
      /\ b.output.http = t.output.http
      /\ b.output.otlp = IF t.output.otlp = Nil THEN Nil ELSE AD!DefaultProtocol(t.output.otlp)
  BY LogBetaFields, Zenon DEF Paths
<1>5. QED
  BY <1>1, <1>2, <1>3, <1>4, Zenon

LEMMA PathCopies ==
    ASSUME NEW s, NEW d, NEW c, NEW t, NEW b, Paths(s, d, c, t, b)
    PROVE  /\ d.output.custom = s.output.custom /\ d.filters = s.filters /\ d.files = s.files
           /\ d.variables = s.variables /\ d.transform = s.transform /\ d.filter = s.filter
           /\ c.output.custom = s.output.custom /\ c.filters = s.filters /\ c.files = s.files
           /\ c.variables = s.variables /\ c.transform = s.transform /\ c.filter = s.filter
           /\ b.output.custom = s.output.custom /\ b.filters = s.filters /\ b.files = s.files
           /\ b.variables = s.variables /\ b.transform = s.transform /\ b.filter = s.filter
<1>1. /\ d.output.custom = s.output.custom /\ d.filters = s.filters /\ d.files = s.files
      /\ d.variables = s.variables /\ d.transform = s.transform /\ d.filter = s.filter
  BY LogAlphaFields, Zenon DEF Paths
<1>2. /\ c.output.custom = d.output.custom /\ c.filters = d.filters /\ c.files = d.files
      /\ c.variables = d.variables /\ c.transform = d.transform /\ c.filter = d.filter
  BY LogConvertedFields, Zenon DEF Paths
<1>3. /\ t.output.custom = s.output.custom /\ t.filters = s.filters /\ t.files = s.files
      /\ t.variables = s.variables /\ t.transform = s.transform /\ t.filter = s.filter
  BY LogConvertedFields, Zenon DEF Paths
<1>4. /\ b.output.custom = t.output.custom /\ b.filters = t.filters /\ b.files = t.files
      /\ b.variables = t.variables /\ b.transform = t.transform /\ b.filter = t.filter
  BY LogBetaFields, Zenon DEF Paths
<1>5. QED
  BY <1>1, <1>2, <1>3, <1>4, Zenon

\* The runtime inputs at the ends of both paths.
LEMMA PathRuntimes ==
    ASSUME NilIsNoValue, NEW s, IsAlphaLogSpec(s), NEW d, NEW c, NEW t, NEW b, Paths(s, d, c, t, b)
    PROVE  LET da == d.input.application
               cr == c.input.runtime
               br == b.input.runtime
           IN  /\ cr # Nil /\ br # Nil /\ da # Nil
               /\ cr.enabled = br.enabled /\ da.enabled = br.enabled /\ cr.enabled \in BOOLEAN
               /\ cr.namespaces = br.namespaces /\ br.namespaces = AD!NamespacesToBeta(da.namespaces)
               /\ cr.keepAnnotations = br.keepAnnotations /\ da.keepAnnotations = br.keepAnnotations
               /\ cr.dropLabels = br.dropLabels /\ da.dropLabels = br.dropLabels
               /\ cr.containers = br.containers
               /\ cr.enabled => cr.keepOriginalBody = br.keepOriginalBody
<1>1. s.input.application = Nil \/ IsApplication(s.input.application)
  BY Zenon DEF IsAlphaLogSpec
<1>2. /\ d.input.application = AD!ApplicationDefaults(s.input.application)
      /\ c.input.runtime = AD!ApplicationToRuntime(AD!ApplicationDefaults(s.input.application))
      /\ b.input.runtime = AD!RuntimeDefaults(AD!ApplicationToRuntime(s.input.application))
  BY PathFields
<1>3. QED
  BY <1>1, <1>2, RuntimeAgrees

\* The order of defaulting and converting does not matter for the output ...
LEMMA PathOutputs ==
    ASSUME NilIsNoValue, NEW s, IsAlphaLogSpec(s), NEW d, NEW c, NEW t, NEW b, Paths(s, d, c, t, b)
    PROVE  /\ c.output.otlp = b.output.otlp
           /\ c.output.otlp = Nil <=> s.output.otlp = Nil
           /\ d.output.otlp = Nil <=> s.output.otlp = Nil
           /\ t.output.otlp = Nil <=> s.output.otlp = Nil
           /\ b.output.http = Nil <=> s.output.http = Nil
<1>1. \A o : AD!OTLPOutputToBeta(o) # Nil
  BY StructsAreNotNil, Zenon DEF AD!OTLPOutputToBeta
<1>2. b.output.http = Nil <=> s.output.http = Nil
  <2>1. \A h : AD!FluentBitHTTPOutputToBeta(h) # Nil
    BY StructsAreNotNil, Zenon DEF AD!FluentBitHTTPOutputToBeta
  <2>2. QED
    BY <2>1, PathFields
<1>3. CASE s.output.otlp = Nil
  BY <1>2, <1>3, PathFields
<1>4. CASE s.output.otlp # Nil
  <2>1. IsAlphaOTLPOutput(s.output.otlp)
    BY <1>4, Zenon DEF IsAlphaLogSpec
  <2>2. AD!DefaultProtocol(s.output.otlp) # Nil
    <3>1. IsAlphaOTLPOutput(AD!DefaultProtocol(s.output.otlp))
      BY <2>1, ProtocolShape, Zenon
    <3>2. QED
      BY <3>1, StructsAreNotNil, Zenon DEF IsAlphaOTLPOutput
  <2>3. d.output.otlp = AD!DefaultProtocol(s.output.otlp)
    BY <1>4, PathFields, Zenon
  <2>4. t.output.otlp = AD!OTLPOutputToBeta(s.output.otlp)
    BY <1>4, PathFields
  <2>5. c.output.otlp = AD!OTLPOutputToBeta(AD!DefaultProtocol(s.output.otlp))
    BY <2>2, <2>3, PathFields
  <2>6. b.output.otlp = AD!DefaultProtocol(AD!OTLPOutputToBeta(s.output.otlp))
    BY <1>1, <2>4, PathFields
  <2>7. QED
    BY <1>1, <1>2, <1>4, <2>1, <2>2, <2>3, <2>4, <2>5, <2>6, OutputsAgree, Zenon
<1>5. QED
  BY <1>3, <1>4, Zenon

\* ... nor for what a LogPipeline does ...
LEMMA LogEffectsAgree ==
    ASSUME NilIsNoValue, NEW s, IsAlphaLogSpec(s), NEW d, NEW c, NEW t, NEW b, Paths(s, d, c, t, b)
    PROVE  Effect(AD!Log, c) = Effect(AD!Log, b)
<1> DEFINE cr == c.input.runtime
           br == b.input.runtime
<1>1. /\ cr # Nil /\ br # Nil /\ cr.enabled = br.enabled /\ cr.enabled \in BOOLEAN
      /\ cr.namespaces = br.namespaces /\ cr.keepAnnotations = br.keepAnnotations
      /\ cr.dropLabels = br.dropLabels /\ cr.containers = br.containers
      /\ cr.enabled => cr.keepOriginalBody = br.keepOriginalBody
  BY PathRuntimes
<1>2. Does(c.input.otlp, Nil) = Does(b.input.otlp, Nil)
  <2>1. s.input.otlp = Nil \/ IsAlphaOTLPInput(s.input.otlp)
    BY Zenon DEF IsAlphaLogSpec
  <2>2. CASE s.output.otlp = Nil
    <3>1. c.input.otlp = b.input.otlp
      BY <2>2, PathFields, PathOutputs
    <3>2. QED
      BY <3>1, Zenon
  <2>3. CASE s.output.otlp # Nil
    <3>1. /\ c.input.otlp = AD!OTLPInputToBeta(AD!OTLPInputDefaultAlpha(s.input.otlp))
          /\ b.input.otlp = AD!OTLPInputDefaultBeta(AD!OTLPInputToBeta(s.input.otlp))
      BY <2>3, PathFields, PathOutputs
    <3>2. QED
      BY <2>1, <3>1, OTLPInputsAgree, Zenon
  <2>4. QED
    BY <2>2, <2>3, Zenon
<1>3. /\ c.output.custom = b.output.custom /\ c.output.http = b.output.http
      /\ c.filters = b.filters /\ c.files = b.files /\ c.variables = b.variables
      /\ c.transform = b.transform /\ c.filter = b.filter
  BY PathCopies, PathFields
<1>4. c.output.otlp = b.output.otlp
  BY PathOutputs
<1>5. Does(cr, [f \in {"keepOriginalBody", "keepAnnotations", "dropLabels"} |-> cr[f]]) =
        Does(br, [f \in {"keepOriginalBody", "keepAnnotations", "dropLabels"} |-> br[f]])
  <2> HIDE DEF cr, br
  <2>1. QED  BY <1>1, SameRuntime, Zenon
<1>6. QED
  <2>1. AD!Given(cr.containers, Pick(Nil, Nil)) = AD!Given(br.containers, Pick(Nil, Nil))
    BY <1>1, Zenon
  <2>2. QED
    BY <1>1, <1>2, <1>3, <1>4, <1>5, <2>1, SameLogEffect, Zenon

\* ... nor for the answer of the validators.
LEMMA LogAnswersAgree ==
    ASSUME NilIsNoValue, NEW s, IsAlphaLogSpec(s), NEW d, NEW c, NEW t, NEW b, Paths(s, d, c, t, b)
    PROVE  AD!LogPipelineValidateAlpha(d) = AD!LogPipelineValidateBeta(b)
<1> DEFINE da == d.input.application
           br == b.input.runtime
<1>1. /\ d.output.custom = b.output.custom
      /\ d.filters = b.filters /\ d.files = b.files /\ d.variables = b.variables
      /\ d.transform = b.transform /\ d.filter = b.filter
  BY PathCopies
<1>2. d.output.http = Nil <=> b.output.http = Nil
  BY PathFields, PathOutputs
<1>3. /\ da # Nil /\ br # Nil /\ da.enabled = br.enabled
      /\ da.keepAnnotations = br.keepAnnotations /\ da.dropLabels = br.dropLabels
  BY PathRuntimes
<1>4. AD!Deprecations(d, da) = AD!Deprecations(b, br)
  BY <1>1, <1>2, <1>3, Zenon DEF AD!Deprecations, AD!InputEnabled
<1>5. AD!ValidateFilterTransform(d) = AD!ValidateFilterTransform(b)
  BY <1>1, Zenon DEF AD!ValidateFilterTransform
<1>6. QED
  BY <1>4, <1>5, Zenon DEF AD!LogPipelineValidateAlpha, AD!LogPipelineValidateBeta, AD!Answer

\* Defaulting a LogPipeline twice is defaulting it once.
LEMMA ProtocolNotNil ==
    ASSUME NilIsNoValue, NEW o, o # Nil
    PROVE  AD!DefaultProtocol(o) # Nil
BY Zenon DEF AD!DefaultProtocol, NilIsNoValue

LEMMA WithOnce ==
    ASSUME NilIsNoValue, NEW s, NEW in
    PROVE  AD!LogPipelineWith(AD!LogPipelineWith(s, in), in) = AD!LogPipelineWith(s, in)
<1> DEFINE d == AD!LogPipelineWith(s, in)
           o == IF s.output.otlp = Nil THEN Nil ELSE AD!DefaultProtocol(s.output.otlp)
<1>1. /\ d = [input |-> in, output |-> [custom |-> s.output.custom, http |-> s.output.http, otlp |-> o],
              filters |-> s.filters, files |-> s.files, variables |-> s.variables,
              transform |-> s.transform, filter |-> s.filter]
  BY Zenon DEF AD!LogPipelineWith
<1>2. o = IF o = Nil THEN Nil ELSE AD!DefaultProtocol(o)
  BY ProtocolOnce, ProtocolNotNil, Zenon
<1> HIDE DEF d, o
<1>3. /\ d.output.custom = s.output.custom /\ d.output.http = s.output.http /\ d.output.otlp = o
      /\ d.filters = s.filters /\ d.files = s.files /\ d.variables = s.variables
      /\ d.transform = s.transform /\ d.filter = s.filter
  BY <1>1, Zenon
<1>4. AD!LogPipelineWith(d, in) = d
  BY <1>1, <1>2, <1>3, Zenon DEF AD!LogPipelineWith
<1>5. QED
  BY <1>4, Zenon DEF d

LEMMA LogDefaultsOnce ==
    ASSUME NilIsNoValue, NEW s
    PROVE  /\ AD!LogPipelineDefaultAlpha(AD!LogPipelineDefaultAlpha(s)) = AD!LogPipelineDefaultAlpha(s)
           /\ AD!LogPipelineDefaultBeta(AD!LogPipelineDefaultBeta(s)) = AD!LogPipelineDefaultBeta(s)
<1>1. AD!LogPipelineDefaultAlpha(AD!LogPipelineDefaultAlpha(s)) = AD!LogPipelineDefaultAlpha(s)
  <2> DEFINE d == AD!LogPipelineDefaultAlpha(s)
             o == IF s.output.otlp = Nil THEN s.input.otlp ELSE AD!OTLPInputDefaultAlpha(s.input.otlp)
             in == [application |-> AD!ApplicationDefaults(s.input.application), otlp |-> o]
  <2>1. d = AD!LogPipelineWith(s, in)
    BY Zenon DEF AD!LogPipelineDefaultAlpha
  <2>2. /\ d.input.application = AD!ApplicationDefaults(s.input.application)
        /\ d.input.otlp = o
        /\ d.output.otlp = Nil <=> s.output.otlp = Nil
    <3>1. d.output.otlp = IF s.output.otlp = Nil THEN Nil ELSE AD!DefaultProtocol(s.output.otlp)
      BY LogAlphaFields, Zenon
    <3>2. d.output.otlp = Nil <=> s.output.otlp = Nil
      BY <3>1, ProtocolNotNil, Zenon
    <3>3. QED
      BY <3>2, LogAlphaFields, Zenon
  <2>3. AD!ApplicationDefaults(d.input.application) = d.input.application
    BY <2>2, InputOnce, Zenon
  <2>4. o = IF d.output.otlp = Nil THEN o ELSE AD!OTLPInputDefaultAlpha(o)
    BY <2>2, OTLPInputOnce, Zenon
  <2> HIDE DEF d, o
  <2>5. AD!LogPipelineDefaultAlpha(d) = AD!LogPipelineWith(d, in)
    BY <2>2, <2>3, <2>4, Zenon DEF AD!LogPipelineDefaultAlpha
  <2> HIDE DEF in
  <2>6. AD!LogPipelineDefaultAlpha(d) = d
    BY <2>1, <2>5, WithOnce, Zenon
  <2>7. QED
    BY <2>6, Zenon DEF d
<1>2. AD!LogPipelineDefaultBeta(AD!LogPipelineDefaultBeta(s)) = AD!LogPipelineDefaultBeta(s)
  <2> DEFINE d == AD!LogPipelineDefaultBeta(s)
             o == IF s.output.otlp = Nil THEN s.input.otlp ELSE AD!OTLPInputDefaultBeta(s.input.otlp)
             in == [runtime |-> AD!RuntimeDefaults(s.input.runtime), otlp |-> o]
  <2>1. d = AD!LogPipelineWith(s, in)
    BY Zenon DEF AD!LogPipelineDefaultBeta
  <2>2. /\ d.input.runtime = AD!RuntimeDefaults(s.input.runtime)
        /\ d.input.otlp = o
        /\ d.output.otlp = Nil <=> s.output.otlp = Nil
    <3>1. d.output.otlp = IF s.output.otlp = Nil THEN Nil ELSE AD!DefaultProtocol(s.output.otlp)
      BY LogBetaFields, Zenon
    <3>2. d.output.otlp = Nil <=> s.output.otlp = Nil
      BY <3>1, ProtocolNotNil, Zenon
    <3>3. QED
      BY <3>2, LogBetaFields, Zenon
  <2>3. AD!RuntimeDefaults(d.input.runtime) = d.input.runtime
    BY <2>2, InputOnce, Zenon
  <2>4. o = IF d.output.otlp = Nil THEN o ELSE AD!OTLPInputDefaultBeta(o)
    BY <2>2, OTLPInputOnce, Zenon
  <2> HIDE DEF d, o
  <2>5. AD!LogPipelineDefaultBeta(d) = AD!LogPipelineWith(d, in)
    BY <2>2, <2>3, <2>4, Zenon DEF AD!LogPipelineDefaultBeta
  <2> HIDE DEF in
  <2>6. AD!LogPipelineDefaultBeta(d) = d
    BY <2>1, <2>5, WithOnce, Zenon
  <2>7. QED
    BY <2>6, Zenon DEF d
<1>3. QED
  BY <1>1, <1>2, Zenon

\* Neither defaulting nor converting an output fills in a value or empties one.
LEMMA CompleteOutputs ==
    ASSUME NilIsNoValue, NEW s, IsAlphaLogSpec(s), NEW d, NEW c, NEW t, NEW b, Paths(s, d, c, t, b)
    PROVE  AD!OutputComplete(b.output) <=> AD!OutputComplete(d.output)
<1>1. ASSUME NEW v
      PROVE  AD!HasValue(AD!ValueType(v)) <=> AD!HasValue(v)
  BY Zenon DEF AD!HasValue, AD!ValueType
<1>2. (b.output.http # Nil => AD!HasValue(b.output.http.host))
        <=> (d.output.http # Nil => AD!HasValue(d.output.http.host))
  <2>1. d.output.http = s.output.http /\ (b.output.http = Nil <=> s.output.http = Nil)
    BY PathFields, PathOutputs
  <2>2. s.output.http # Nil => b.output.http.host = AD!ValueType(d.output.http.host)
    <3>1. \A h : AD!FluentBitHTTPOutputToBeta(h).host = AD!ValueType(h.host)
      BY Zenon DEF AD!FluentBitHTTPOutputToBeta
    <3>2. s.output.http # Nil => b.output.http = AD!FluentBitHTTPOutputToBeta(s.output.http)
      BY PathFields
    <3>3. QED
      BY <2>1, <3>1, <3>2, Zenon
  <2>3. QED
    BY <1>1, <2>1, <2>2, Zenon
<1>3. /\ b.output.otlp = Nil <=> d.output.otlp = Nil
      /\ d.output.otlp # Nil =>
           /\ b.output.otlp.endpoint = AD!ValueType(d.output.otlp.endpoint)
           /\ b.output.otlp.authentication = d.output.otlp.authentication
           /\ b.output.otlp.headers = d.output.otlp.headers
  <2>1. /\ b.output.otlp = c.output.otlp
        /\ b.output.otlp = Nil <=> d.output.otlp = Nil
    BY PathOutputs, SMTT(30)
  <2>2. d.output.otlp # Nil => c.output.otlp = AD!OTLPOutputToBeta(d.output.otlp)
    BY LogConvertedFields, Zenon DEF Paths
  <2>3. ASSUME NEW o
        PROVE  LET x == AD!OTLPOutputToBeta(o)
               IN  /\ x.endpoint = AD!ValueType(o.endpoint)
                   /\ x.authentication = o.authentication /\ x.headers = o.headers
    BY Zenon DEF AD!OTLPOutputToBeta
  <2>4. QED
    BY <2>1, <2>2, <2>3, Zenon
<1>4. QED
  BY <1>1, <1>2, <1>3, Zenon DEF AD!OutputComplete

\* The schema of v1beta1 admits what the conversion makes of an admitted LogPipeline without
\* empty values, and its namespaces are the documented ones.
LEMMA LogAdmitted ==
    ASSUME NilIsNoValue, NEW s, IsAlphaLogSpec(s), NEW d, NEW c, NEW t, NEW b, Paths(s, d, c, t, b),
           AD!AdmittedInAlpha(d)
    PROVE  /\ AD!AdmittedInBeta(b) <=> AD!OutputComplete(d.output)
           /\ AD!SelectorAdmitted(b.input.runtime.namespaces)
           /\ LET ns == d.input.application.namespaces
              IN  (ns.include # {} => ns.include \cap ValidNames # {})
                    => Chosen(c.input.runtime.namespaces) = Documented(ns)
<1> DEFINE ns == d.input.application.namespaces
<1>1. IsAlphaNamespaces(ns)
  <2>1. CASE s.input.application = Nil
    <3>1. d.input.application = AD!ApplicationDefaults(Nil)
      BY <2>1, PathFields
    <3>2. d.input.application = AD!NewApplicationInput
      BY <3>1, MissingInput, Zenon
    <3>3. ns = [include |-> {}, exclude |-> {}, system |-> FALSE]
      <4>1. AD!NewApplicationInput.namespaces = [include |-> {}, exclude |-> {}, system |-> FALSE]
        BY Zenon DEF AD!NewApplicationInput, AD!AlphaSelector
      <4>2. QED
        BY <3>2, <4>1, Zenon
    <3> HIDE DEF ns
    <3>4. ns.include = {} /\ ns.exclude = {} /\ ns.system = FALSE
      BY <3>3, Zenon
    <3>5. QED
      BY <3>3, <3>4, Zenon DEF IsAlphaNamespaces, AD!AlphaSelector
  <2>2. CASE s.input.application # Nil
    <3>1. IsApplication(s.input.application)
      BY <2>2, Zenon DEF IsAlphaLogSpec
    <3>2. d.input.application = AD!ApplicationDefaults(s.input.application)
      BY PathFields
    <3>3. ns = s.input.application.namespaces
      BY <2>2, <3>2, ApplicationFields, Zenon
    <3>4. QED
      BY <3>1, <3>3, Zenon DEF IsApplication
  <2>3. QED
    BY <2>1, <2>2, Zenon
<1>2. /\ b.input.runtime.namespaces = AD!NamespacesToBeta(ns)
      /\ c.input.runtime.namespaces = AD!NamespacesToBeta(ns)
  BY PathRuntimes
<1>3. /\ AD!SelectorAdmitted(b.input.runtime.namespaces)
      /\ (ns.include # {} => ns.include \cap ValidNames # {})
           => Chosen(c.input.runtime.namespaces) = Documented(ns)
  BY <1>1, <1>2, NamespacesAgree, Zenon
<1>4. AD!OutputsAdmitted(b.output)
  <2>1. /\ d.output.custom = b.output.custom
        /\ d.output.http = Nil <=> b.output.http = Nil
        /\ d.output.otlp = Nil <=> b.output.otlp = Nil
    BY PathCopies, PathFields, PathOutputs
  <2> DEFINE Set(o) == {k \in {"custom", "http", "otlp"} :
                          \/ k = "custom" /\ o.custom # ""
                          \/ k = "http" /\ o.http # Nil
                          \/ k = "otlp" /\ o.otlp # Nil}
  <2>2. Set(d.output) = Set(b.output)
    BY <2>1, Zenon
  <2>3. QED
    BY <2>2, Zenon DEF AD!AdmittedInAlpha, AD!SpecAdmitted, AD!OutputsAdmitted
<1>5. AD!SpecAdmitted(b, b.input.runtime)
  <2>1. /\ d.filters = b.filters /\ d.files = b.files /\ d.variables = b.variables
        /\ d.transform = b.transform /\ d.filter = b.filter
    BY PathCopies
  <2>2. d.input.application # Nil /\ b.input.runtime # Nil
        /\ d.input.application.dropLabels = b.input.runtime.dropLabels
        /\ d.input.application.keepAnnotations = b.input.runtime.keepAnnotations
    BY PathRuntimes
  <2>3. d.output.otlp = Nil <=> b.output.otlp = Nil
    BY PathOutputs
  <2>4. d.output.otlp = Nil /\ d.input.otlp = Nil => b.input.otlp = Nil
    <3>1. AD!OTLPInputToBeta(Nil) = Nil
      BY Zenon DEF AD!OTLPInputToBeta
    <3>2. QED
      BY <3>1, PathFields, PathOutputs
  <2>5. QED
    BY <1>4, <2>1, <2>2, <2>3, <2>4, Zenon DEF AD!AdmittedInAlpha, AD!SpecAdmitted
<1>6. AD!AdmittedInBeta(b) <=> AD!OutputComplete(d.output)
  BY <1>5, CompleteOutputs, Zenon DEF AD!AdmittedInBeta
<1>7. QED
  BY <1>3, <1>6, Zenon

-----------------------------------------------------------------------------
\* A MetricPipeline: only the namespaces of two inputs are touched by the conversion.

\* The runtime input may be defaulted before or after the conversion.
LEMMA MetricRuntimesAgree ==
    ASSUME NilIsNoValue, NEW i
    PROVE  AD!MetricPipelineRuntimeInputToBeta(AD!RuntimeInputDefaults(i)) =
             AD!RuntimeInputDefaults(AD!MetricPipelineRuntimeInputToBeta(i))
<1> DEFINE t == AD!MetricPipelineRuntimeInputToBeta(i)
           n == AD!Given(i.namespaces, AD!ExcludeSystem)
           s == IF i.namespaces = Nil THEN Nil ELSE AD!Sanitized(i.namespaces)
           x == AD!applyRuntimeInputResourceDefaults(i.resources)
<1>1. CASE i = Nil
  BY <1>1, Zenon DEF AD!MetricPipelineRuntimeInputToBeta, AD!RuntimeInputDefaults, AD!InputEnabled
<1>2. CASE i # Nil
  <2>1. t = [enabled |-> i.enabled, resources |-> i.resources, additionalMetrics |-> i.additionalMetrics,
             namespaces |-> s]
    BY <1>2, Zenon DEF AD!MetricPipelineRuntimeInputToBeta
  <2>2. t # Nil
    BY <1>2, Zenon DEF AD!MetricPipelineRuntimeInputToBeta, NilIsNoValue
  <2> HIDE DEF t, s
  <2>3. /\ t.enabled = i.enabled /\ t.resources = i.resources
        /\ t.additionalMetrics = i.additionalMetrics /\ t.namespaces = s
    BY <2>1, Zenon
  <2>4. CASE AD!InputEnabled(i)
    <3>1. AD!RuntimeInputDefaults(i) =
            [enabled |-> TRUE, resources |-> x, additionalMetrics |-> i.additionalMetrics, namespaces |-> n]
      BY <2>4, Zenon DEF AD!RuntimeInputDefaults
    <3>2. AD!RuntimeInputDefaults(i) # Nil /\ n # Nil
      BY <3>1, DefaultSelectors, Zenon DEF NilIsNoValue, AD!Given
    <3>3. AD!Given(s, AD!ExcludeSystem) = AD!Sanitized(n)
      BY DefaultSelectors, Zenon DEF AD!Given, s
    <3> HIDE DEF n, x
    <3>4. AD!MetricPipelineRuntimeInputToBeta(AD!RuntimeInputDefaults(i)) =
            [enabled |-> TRUE, resources |-> x, additionalMetrics |-> i.additionalMetrics,
             namespaces |-> AD!Sanitized(n)]
      <4> DEFINE d == AD!RuntimeInputDefaults(i)
      <4> HIDE DEF d
      <4>1. d # Nil /\ d = [enabled |-> TRUE, resources |-> x, additionalMetrics |-> i.additionalMetrics,
                            namespaces |-> n]
        BY <3>1, <3>2, Zenon DEF d
      <4>2. /\ d.enabled = TRUE /\ d.resources = x /\ d.additionalMetrics = i.additionalMetrics
            /\ d.namespaces = n
        BY <4>1, Zenon
      <4>3. AD!MetricPipelineRuntimeInputToBeta(d) =
              [enabled |-> TRUE, resources |-> x, additionalMetrics |-> i.additionalMetrics,
               namespaces |-> AD!Sanitized(n)]
        BY <3>2, <4>1, <4>2, Zenon DEF AD!MetricPipelineRuntimeInputToBeta
      <4>4. QED
        BY <4>3, Zenon DEF d
    <3>5. AD!InputEnabled(t)
      BY <2>2, <2>3, <2>4, Zenon DEF AD!InputEnabled
    <3>6. AD!RuntimeInputDefaults(t) =
            [enabled |-> TRUE, resources |-> x, additionalMetrics |-> i.additionalMetrics,
             namespaces |-> AD!Given(s, AD!ExcludeSystem)]
      BY <2>3, <3>5, Zenon DEF AD!RuntimeInputDefaults, x
    <3>7. QED
      BY <3>3, <3>4, <3>6, Zenon DEF t
  <2>5. CASE ~AD!InputEnabled(i)
    <3>1. ~AD!InputEnabled(t)
      BY <1>2, <2>2, <2>3, <2>5, Zenon DEF AD!InputEnabled
    <3>2. QED
      BY <2>5, <3>1, Zenon DEF AD!RuntimeInputDefaults, t
  <2>6. QED
    BY <2>4, <2>5, Zenon
<1>3. QED
  BY <1>1, <1>2, Zenon

\* Defaulting an input twice is defaulting it once.
LEMMA MetricInputsOnce ==
    ASSUME NilIsNoValue, NEW i
    PROVE  /\ AD!PrometheusDefaults(AD!PrometheusDefaults(i)) = AD!PrometheusDefaults(i)
           /\ AD!IstioDefaults(AD!IstioDefaults(i)) = AD!IstioDefaults(i)
           /\ AD!RuntimeInputDefaults(AD!RuntimeInputDefaults(i)) = AD!RuntimeInputDefaults(i)
<1>1. ASSUME NEW v, NEW w, w # Nil PROVE AD!Given(AD!Given(v, w), w) = AD!Given(v, w)
  BY Zenon DEF AD!Given
<1>2. FALSE # Nil /\ AD!ExcludeSystem # Nil
  BY StructsAreNotNil, DefaultSelectors, Zenon
<1>3. AD!PrometheusDefaults(AD!PrometheusDefaults(i)) = AD!PrometheusDefaults(i)
  <2> DEFINE d == AD!PrometheusDefaults(i)
             n == AD!Given(i.namespaces, AD!ExcludeSystem)
             g == AD!Given(i.diagnostics, FALSE)
  <2>1. CASE AD!InputEnabled(i)
    <3>1. d = [enabled |-> TRUE, namespaces |-> n, diagnostics |-> g]
      BY <2>1, Zenon DEF AD!PrometheusDefaults
    <3>2. AD!Given(n, AD!ExcludeSystem) = n /\ AD!Given(g, FALSE) = g
      BY <1>1, <1>2, Zenon
    <3> HIDE DEF d, n, g
    <3>3. d.namespaces = n /\ d.diagnostics = g
      BY <3>1, Zenon
    <3>4. AD!PrometheusDefaults(d) = d
      BY <3>1, <3>2, <3>3, Zenon DEF AD!PrometheusDefaults
    <3>5. QED
      BY <3>4, Zenon DEF d
  <2>2. CASE ~AD!InputEnabled(i)
    BY <2>2, Zenon DEF AD!PrometheusDefaults
  <2>3. QED
    BY <2>1, <2>2, Zenon
<1>4. AD!IstioDefaults(AD!IstioDefaults(i)) = AD!IstioDefaults(i)
  <2> DEFINE d == AD!IstioDefaults(i)
             n == AD!Given(i.namespaces, AD!ExcludeSystem)
             g == AD!Given(i.diagnostics, FALSE)
             e == AD!Given(i.envoy, FALSE)
  <2>1. CASE AD!InputEnabled(i)
    <3>1. d = [enabled |-> TRUE, namespaces |-> n, diagnostics |-> g, envoy |-> e]
      BY <2>1, Zenon DEF AD!IstioDefaults
    <3>2. AD!Given(n, AD!ExcludeSystem) = n /\ AD!Given(g, FALSE) = g /\ AD!Given(e, FALSE) = e
      BY <1>1, <1>2, Zenon
    <3> HIDE DEF d, n, g, e
    <3>3. d.namespaces = n /\ d.diagnostics = g /\ d.envoy = e
      BY <3>1, Zenon
    <3>4. AD!IstioDefaults(d) = d
      BY <3>1, <3>2, <3>3, Zenon DEF AD!IstioDefaults
    <3>5. QED
      BY <3>4, Zenon DEF d
  <2>2. CASE ~AD!InputEnabled(i)
    BY <2>2, Zenon DEF AD!IstioDefaults
  <2>3. QED
    BY <2>1, <2>2, Zenon
<1>5. AD!RuntimeInputDefaults(AD!RuntimeInputDefaults(i)) = AD!RuntimeInputDefaults(i)
  <2> DEFINE d == AD!RuntimeInputDefaults(i)
             n == AD!Given(i.namespaces, AD!ExcludeSystem)
             x == AD!applyRuntimeInputResourceDefaults(i.resources)
  <2>1. CASE AD!InputEnabled(i)
    <3>1. d = [enabled |-> TRUE, resources |-> x, additionalMetrics |-> i.additionalMetrics,
               namespaces |-> n]
      BY <2>1, Zenon DEF AD!RuntimeInputDefaults
    <3>2. AD!Given(n, AD!ExcludeSystem) = n
      BY <1>1, <1>2, Zenon
    <3>3. AD!applyRuntimeInputResourceDefaults(x) = x
      <4>1. \A r \in AD!Resources : x[r] # Nil
        BY StructsAreNotNil, Zenon DEF AD!applyRuntimeInputResourceDefaults
      <4>2. x = [r \in AD!Resources |-> x[r]]
        BY Zenon DEF AD!applyRuntimeInputResourceDefaults
      <4> HIDE DEF x
      <4>3. x # Nil
        BY <4>2, Zenon DEF NilIsNoValue
      <4>4. AD!applyRuntimeInputResourceDefaults(x) = [r \in AD!Resources |-> x[r]]
        BY <4>1, <4>3, Zenon DEF AD!applyRuntimeInputResourceDefaults
      <4>5. QED
        BY <4>2, <4>4, Zenon
    <3> HIDE DEF d, n, x
    <3>4. d.namespaces = n /\ d.resources = x /\ d.additionalMetrics = i.additionalMetrics
      BY <3>1, Zenon
    <3>5. AD!RuntimeInputDefaults(d) = d
      BY <3>1, <3>2, <3>3, <3>4, Zenon DEF AD!RuntimeInputDefaults
    <3>6. QED
      BY <3>5, Zenon DEF d
  <2>2. CASE ~AD!InputEnabled(i)
    BY <2>2, Zenon DEF AD!RuntimeInputDefaults
  <2>3. QED
    BY <2>1, <2>2, Zenon
<1>6. QED
  BY <1>3, <1>4, <1>5, Zenon

\* A MetricPipeline s on both paths: d, c and t, b as for a LogPipeline.
MetricPaths(s, d, c, t, b) ==
    /\ d = AD!MetricPipelineDefaultAlpha(s) /\ c = AD!MetricPipelineSpecToBeta(d)
    /\ t = AD!MetricPipelineSpecToBeta(s) /\ b = AD!MetricPipelineDefaultBeta(t)

LEMMA MetricWithFields ==
    ASSUME NEW s, NEW otlp
    PROVE  LET d == AD!MetricPipelineWith(s, otlp)
           IN  /\ d.input.prometheus = AD!PrometheusDefaults(s.input.prometheus)
               /\ d.input.istio = AD!IstioDefaults(s.input.istio)
               /\ d.input.runtime = AD!RuntimeInputDefaults(s.input.runtime)
               /\ d.input.otlp = otlp
               /\ d.output.otlp = AD!DefaultProtocol(s.output.otlp)
               /\ d.output.temporality = AD!Given(s.output.temporality, "preserve")
               /\ d.transform = s.transform /\ d.filter = s.filter
BY Zenon DEF AD!MetricPipelineWith, AD!applyOTLPOutputDefaults

LEMMA MetricConvertedFields ==
    ASSUME NEW s
    PROVE  LET d == AD!MetricPipelineSpecToBeta(s)
           IN  /\ d.input.prometheus = s.input.prometheus
               /\ d.input.istio = s.input.istio
               /\ d.input.runtime = AD!MetricPipelineRuntimeInputToBeta(s.input.runtime)
               /\ d.input.otlp = AD!OTLPInputToBeta(s.input.otlp)
               /\ d.output.otlp = AD!OTLPOutputToBeta(s.output.otlp)
               /\ d.output.temporality = s.output.temporality
               /\ d.transform = s.transform /\ d.filter = s.filter
BY Zenon DEF AD!MetricPipelineSpecToBeta, AD!MetricPipelineInputToBeta, AD!MetricPipelineOTLPOutputToBeta

LEMMA MetricPathFields ==
    ASSUME NilIsNoValue, NEW s, IsAlphaMetricSpec(s), NEW d, NEW c, NEW t, NEW b, MetricPaths(s, d, c, t, b)
    PROVE  /\ c.input.prometheus = b.input.prometheus /\ c.input.istio = b.input.istio
           /\ c.input.runtime = b.input.runtime
           /\ Does(c.input.otlp, Nil) = Does(b.input.otlp, Nil)
           /\ c.output.otlp = b.output.otlp /\ c.output.temporality = b.output.temporality
           /\ c.transform = b.transform /\ c.filter = b.filter
           /\ d.transform = b.transform /\ d.filter = b.filter
<1>1. d = AD!MetricPipelineWith(s, AD!OTLPInputDefaultAlpha(s.input.otlp))
  BY Zenon DEF MetricPaths, AD!MetricPipelineDefaultAlpha
<1>2. b = AD!MetricPipelineWith(t, AD!OTLPInputDefaultBeta(t.input.otlp))
  BY Zenon DEF MetricPaths, AD!MetricPipelineDefaultBeta
<1>3. /\ d.input.prometheus = AD!PrometheusDefaults(s.input.prometheus)
      /\ d.input.istio = AD!IstioDefaults(s.input.istio)
      /\ d.input.runtime = AD!RuntimeInputDefaults(s.input.runtime)
      /\ d.input.otlp = AD!OTLPInputDefaultAlpha(s.input.otlp)
      /\ d.output.otlp = AD!DefaultProtocol(s.output.otlp)
      /\ d.output.temporality = AD!Given(s.output.temporality, "preserve")
      /\ d.transform = s.transform /\ d.filter = s.filter
  BY <1>1, MetricWithFields
<1>4. /\ b.input.prometheus = AD!PrometheusDefaults(t.input.prometheus)
      /\ b.input.istio = AD!IstioDefaults(t.input.istio)
      /\ b.input.runtime = AD!RuntimeInputDefaults(t.input.runtime)
      /\ b.input.otlp = AD!OTLPInputDefaultBeta(t.input.otlp)
      /\ b.output.otlp = AD!DefaultProtocol(t.output.otlp)
      /\ b.output.temporality = AD!Given(t.output.temporality, "preserve")
      /\ b.transform = t.transform /\ b.filter = t.filter
  BY <1>2, MetricWithFields
<1>5. /\ c.input.prometheus = d.input.prometheus
      /\ c.input.istio = d.input.istio
      /\ c.input.runtime = AD!MetricPipelineRuntimeInputToBeta(d.input.runtime)
      /\ c.input.otlp = AD!OTLPInputToBeta(d.input.otlp)
      /\ c.output.otlp = AD!OTLPOutputToBeta(d.output.otlp)
      /\ c.output.temporality = d.output.temporality
      /\ c.transform = d.transform /\ c.filter = d.filter
  BY MetricConvertedFields, Zenon DEF MetricPaths
<1>6. /\ t.input.prometheus = s.input.prometheus
      /\ t.input.istio = s.input.istio
      /\ t.input.runtime = AD!MetricPipelineRuntimeInputToBeta(s.input.runtime)
      /\ t.input.otlp = AD!OTLPInputToBeta(s.input.otlp)
      /\ t.output.otlp = AD!OTLPOutputToBeta(s.output.otlp)
      /\ t.output.temporality = s.output.temporality
      /\ t.transform = s.transform /\ t.filter = s.filter
  BY MetricConvertedFields, Zenon DEF MetricPaths
<1>7. c.input.runtime = b.input.runtime
  BY <1>3, <1>4, <1>5, <1>6, MetricRuntimesAgree
<1>8. Does(c.input.otlp, Nil) = Does(b.input.otlp, Nil)
  <2>1. /\ c.input.otlp = AD!OTLPInputToBeta(AD!OTLPInputDefaultAlpha(s.input.otlp))
        /\ b.input.otlp = AD!OTLPInputDefaultBeta(AD!OTLPInputToBeta(s.input.otlp))
    BY <1>3, <1>4, <1>5, <1>6
  <2>2. s.input.otlp = Nil \/ IsAlphaOTLPInput(s.input.otlp)
    BY Zenon DEF IsAlphaMetricSpec
  <2>3. QED
    BY <2>1, <2>2, OTLPInputsAgree, Zenon
<1>9. c.output.otlp = b.output.otlp
  <2>1. /\ c.output.otlp = AD!OTLPOutputToBeta(AD!DefaultProtocol(s.output.otlp))
        /\ b.output.otlp = AD!DefaultProtocol(AD!OTLPOutputToBeta(s.output.otlp))
    BY <1>3, <1>4, <1>5, <1>6
  <2>2. IsAlphaOTLPOutput(s.output.otlp)
    BY Zenon DEF IsAlphaMetricSpec
  <2>3. QED
    BY <2>1, <2>2, OutputsAgree, Zenon
<1>10. QED
  BY <1>3, <1>4, <1>5, <1>6, <1>7, <1>8, <1>9

\* The order of defaulting and converting does not matter for a MetricPipeline.
LEMMA MetricAgrees ==
    ASSUME NilIsNoValue, NEW s, IsAlphaMetricSpec(s), NEW d, NEW c, NEW t, NEW b, MetricPaths(s, d, c, t, b),
           NEW kind, kind # AD!Log
    PROVE  /\ Effect(kind, c) = Effect(kind, b)
           /\ AD!MetricPipelineValidateAlpha(d) = AD!MetricPipelineValidateBeta(b)
<1>1. /\ c.input.prometheus = b.input.prometheus /\ c.input.istio = b.input.istio
      /\ c.input.runtime = b.input.runtime
      /\ Does(c.input.otlp, Nil) = Does(b.input.otlp, Nil)
      /\ c.output.otlp = b.output.otlp /\ c.output.temporality = b.output.temporality
      /\ c.transform = b.transform /\ c.filter = b.filter
      /\ d.transform = b.transform /\ d.filter = b.filter
  BY MetricPathFields
<1>2. Effect(kind, c) = Effect(kind, b)
  BY <1>1, Zenon DEF Effect
<1>3. c = AD!MetricPipelineSpecToBeta(d)
  BY Zenon DEF MetricPaths
<1>4. AD!MetricPipelineValidateAlpha(d) = AD!MetricPipelineValidateBeta(b)
  <2>1. AD!ValidateFilterTransform(d) = AD!ValidateFilterTransform(b)
    BY <1>1, Zenon DEF AD!ValidateFilterTransform
  <2>2. AD!ValidRuntimeMetrics(c) = AD!ValidRuntimeMetrics(b)
    BY <1>1, Zenon DEF AD!ValidRuntimeMetrics
  <2>3. QED
    BY <1>3, <2>1, <2>2, Zenon DEF AD!MetricPipelineValidateAlpha, AD!MetricPipelineValidateBeta
<1>5. QED
  BY <1>2, <1>4, Zenon

LEMMA MetricDefaultsOnce ==
    ASSUME NilIsNoValue, NEW s
    PROVE  /\ AD!MetricPipelineDefaultAlpha(AD!MetricPipelineDefaultAlpha(s)) = AD!MetricPipelineDefaultAlpha(s)
           /\ AD!MetricPipelineDefaultBeta(AD!MetricPipelineDefaultBeta(s)) = AD!MetricPipelineDefaultBeta(s)
<1>1. ASSUME NEW o
      PROVE  AD!MetricPipelineWith(AD!MetricPipelineWith(s, o), o) = AD!MetricPipelineWith(s, o)
  <2> DEFINE d == AD!MetricPipelineWith(s, o)
  <2>1. /\ d.input.prometheus = AD!PrometheusDefaults(s.input.prometheus)
        /\ d.input.istio = AD!IstioDefaults(s.input.istio)
        /\ d.input.runtime = AD!RuntimeInputDefaults(s.input.runtime)
        /\ d.output.otlp = AD!DefaultProtocol(s.output.otlp)
        /\ d.output.temporality = AD!Given(s.output.temporality, "preserve")
        /\ d.transform = s.transform /\ d.filter = s.filter
    BY MetricWithFields, Zenon
  <2>2. d = [input |-> [prometheus |-> AD!PrometheusDefaults(s.input.prometheus),
                        istio |-> AD!IstioDefaults(s.input.istio),
                        runtime |-> AD!RuntimeInputDefaults(s.input.runtime), otlp |-> o],
             output |-> [otlp |-> AD!DefaultProtocol(s.output.otlp),
                         temporality |-> AD!Given(s.output.temporality, "preserve")],
             transform |-> s.transform, filter |-> s.filter]
    BY Zenon DEF AD!MetricPipelineWith, AD!applyOTLPOutputDefaults
  <2> HIDE DEF d
  <2>3. /\ AD!PrometheusDefaults(d.input.prometheus) = AD!PrometheusDefaults(s.input.prometheus)
        /\ AD!IstioDefaults(d.input.istio) = AD!IstioDefaults(s.input.istio)
        /\ AD!RuntimeInputDefaults(d.input.runtime) = AD!RuntimeInputDefaults(s.input.runtime)
        /\ AD!DefaultProtocol(d.output.otlp) = AD!DefaultProtocol(s.output.otlp)
    BY <2>1, MetricInputsOnce, ProtocolOnce, Zenon
  <2>4. AD!Given(d.output.temporality, "preserve") = AD!Given(s.output.temporality, "preserve")
    BY <2>1, Zenon DEF AD!Given, NilIsNoValue
  <2>5. AD!MetricPipelineWith(d, o) = d
    BY <2>1, <2>2, <2>3, <2>4, Zenon DEF AD!MetricPipelineWith, AD!applyOTLPOutputDefaults
  <2>6. QED
    BY <2>5, Zenon DEF d
<1>2. AD!MetricPipelineDefaultAlpha(AD!MetricPipelineDefaultAlpha(s)) = AD!MetricPipelineDefaultAlpha(s)
  <2> DEFINE o == AD!OTLPInputDefaultAlpha(s.input.otlp)
             d == AD!MetricPipelineWith(s, o)
  <2>1. AD!OTLPInputDefaultAlpha(o) = o
    BY OTLPInputOnce, Zenon
  <2>2. d.input.otlp = o
    BY MetricWithFields, Zenon
  <2>3. QED
    BY <1>1, <2>1, <2>2, Zenon DEF AD!MetricPipelineDefaultAlpha
<1>3. AD!MetricPipelineDefaultBeta(AD!MetricPipelineDefaultBeta(s)) = AD!MetricPipelineDefaultBeta(s)
  <2> DEFINE o == AD!OTLPInputDefaultBeta(s.input.otlp)
             d == AD!MetricPipelineWith(s, o)
  <2>1. AD!OTLPInputDefaultBeta(o) = o
    BY OTLPInputOnce, Zenon
  <2>2. d.input.otlp = o
    BY MetricWithFields, Zenon
  <2>3. QED
    BY <1>1, <2>1, <2>2, Zenon DEF AD!MetricPipelineDefaultBeta
<1>4. QED
  BY <1>2, <1>3, Zenon

-----------------------------------------------------------------------------

LEMMA LogVersionsAgree ==
    ASSUME NilIsNoValue, built.of = AD!Log, IsAlphaLogSpec(built.spec)
    PROVE  VersionsAgree
<1> DEFINE s == built.spec
           d == AD!LogPipelineDefaultAlpha(s)
           c == AD!LogPipelineSpecToBeta(d)
           t == AD!LogPipelineSpecToBeta(s)
           b == AD!LogPipelineDefaultBeta(t)
<1>1. Paths(s, d, c, t, b)
  BY Zenon DEF Paths
<1>2. /\ AD!DefaultAlpha(built.of, s) = d
      /\ Converted(built.of, s) = t
      /\ AD!DefaultBeta(built.of, t) = b
      /\ Converted(built.of, d) = c
  BY Zenon DEF AD!DefaultAlpha, AD!DefaultBeta, Converted, AD!ConvertTo, AD!LogPipelineConvertTo
<1>3. AD!DefaultAlpha(built.of, d) = d /\ AD!DefaultBeta(built.of, b) = b
  BY LogDefaultsOnce, Zenon DEF AD!DefaultAlpha, AD!DefaultBeta
<1>4. AD!ValidateAlpha(built.of, d) = AD!ValidateBeta(built.of, b)
  <2> HIDE DEF d, c, t, b
  <2>1. AD!LogPipelineValidateAlpha(d) = AD!LogPipelineValidateBeta(b)
    BY <1>1, LogAnswersAgree
  <2>2. QED
    BY <2>1, Zenon DEF AD!ValidateAlpha, AD!ValidateBeta
<1> HIDE DEF d, c, t, b
<1>5. Effect(built.of, c) = Effect(built.of, b)
  <2>1. Effect(AD!Log, c) = Effect(AD!Log, b)
    BY <1>1, LogEffectsAgree
  <2>2. QED
    BY <2>1, Zenon
<1>6. AD!AdmittedInAlpha(d) =>
        /\ AD!AdmittedInBeta(b) <=> AD!OutputComplete(d.output)
        /\ AD!SelectorAdmitted(b.input.runtime.namespaces)
        /\ LET ns == d.input.application.namespaces
           IN  (ns.include # {} => ns.include \cap ValidNames # {})
                 => Chosen(c.input.runtime.namespaces) = Documented(ns)
  BY <1>1, LogAdmitted
<1>7. QED
  BY <1>2, <1>3, <1>4, <1>5, <1>6, Zenon DEF VersionsAgree

LEMMA MetricVersionsAgree ==
    ASSUME NilIsNoValue, built.of # AD!Log, IsAlphaMetricSpec(built.spec)
    PROVE  VersionsAgree
<1> DEFINE s == built.spec
           d == AD!MetricPipelineDefaultAlpha(s)
           c == AD!MetricPipelineSpecToBeta(d)
           t == AD!MetricPipelineSpecToBeta(s)
           b == AD!MetricPipelineDefaultBeta(t)
<1>1. MetricPaths(s, d, c, t, b)
  BY Zenon DEF MetricPaths
<1>2. /\ AD!DefaultAlpha(built.of, s) = d
      /\ Converted(built.of, s) = t
      /\ AD!DefaultBeta(built.of, t) = b
      /\ Converted(built.of, d) = c
  BY Zenon DEF AD!DefaultAlpha, AD!DefaultBeta, Converted, AD!ConvertTo, AD!MetricPipelineConvertTo
<1>3. AD!DefaultAlpha(built.of, d) = d /\ AD!DefaultBeta(built.of, b) = b
  BY MetricDefaultsOnce, Zenon DEF AD!DefaultAlpha, AD!DefaultBeta
<1> HIDE DEF d, c, t, b
<1>4. /\ Effect(built.of, c) = Effect(built.of, b)
      /\ AD!MetricPipelineValidateAlpha(d) = AD!MetricPipelineValidateBeta(b)
  BY <1>1, MetricAgrees
<1>5. AD!ValidateAlpha(built.of, d) = AD!ValidateBeta(built.of, b)
  BY <1>4, Zenon DEF AD!ValidateAlpha, AD!ValidateBeta
<1>6. QED
  BY <1>2, <1>3, <1>4, <1>5, Zenon DEF VersionsAgree

(***************************************************************************)
(* Through whichever version a pipeline is written, the webhooks of both   *)
(* versions lead to the same effect and the same answer, for every         *)
(* specification of v1alpha1 that its schema admits: any names, values and *)
(* lists of namespaces, whatever fields are left out.                      *)
(***************************************************************************)
THEOREM VersionsAlwaysAgree ==
    ASSUME NilIsNoValue, built.kind = "versions" => IsAlphaSpec(built.of, built.spec)
    PROVE  VersionsAgree
<1>1. CASE built.kind # "versions"
  BY <1>1, Zenon DEF VersionsAgree
<1>2. CASE built.kind = "versions"
  BY <1>2, LogVersionsAgree, MetricVersionsAgree, Zenon DEF IsAlphaSpec
<1>3. QED
  BY <1>1, <1>2, Zenon

-----------------------------------------------------------------------------
\* A client of v1alpha1 that writes back what it reads.

LEMMA ValidSelectors ==
    /\ \A s : AD!Sanitized(AD!Sanitized(s)) = AD!Sanitized(s)
    /\ \A s : IsBetaNamespaces(s) /\ s # Nil => AD!Sanitized(s) = s
    /\ \A s : IsBetaNamespaces(AD!Sanitized(s))
    /\ IsBetaNamespaces(AD!AnyNamespace) /\ IsBetaNamespaces(AD!ExcludeSystem)
<1> USE DEF AD!Sanitized, AD!Selector, AD!sanitizeNamespaceNames, IsBetaNamespaces, IsSelector
<1>1. \A s : AD!Sanitized(AD!Sanitized(s)) = AD!Sanitized(s)
  OBVIOUS
<1>2. \A s : IsBetaNamespaces(s) /\ s # Nil => AD!Sanitized(s) = s
  <2> TAKE s
  <2> HAVE IsBetaNamespaces(s) /\ s # Nil
  <2>1. s.include \cap ValidNames = s.include /\ s.exclude \cap ValidNames = s.exclude
    OBVIOUS
  <2>2. QED
    BY <2>1, Zenon
<1>3. \A s : IsBetaNamespaces(AD!Sanitized(s))
  OBVIOUS
<1>4. IsBetaNamespaces(AD!AnyNamespace) /\ IsBetaNamespaces(AD!ExcludeSystem)
  BY NamesAssumption DEF AD!AnyNamespace, AD!ExcludeSystem
<1>5. QED
  BY <1>1, <1>2, <1>3, <1>4, Zenon

LEMMA NamespacesComeBack ==
    ASSUME NilIsNoValue, NEW n, IsBetaNamespaces(n), n # Nil
    PROVE  AD!NamespacesToBeta(AD!NamespacesToAlpha(n)) = n
<1> DEFINE a == AD!NamespacesToAlpha(n)
<1>1. a = [include |-> n.include, exclude |-> n.exclude, system |-> (n.include = {} /\ n.exclude = {})]
  BY Zenon DEF AD!NamespacesToAlpha, AD!AlphaSelector
<1> HIDE DEF a
<1>2. a.include = n.include /\ a.exclude = n.exclude /\ a.system = (n.include = {} /\ n.exclude = {})
  BY <1>1, Zenon
<1>3. ~(a.include = {} /\ a.exclude = {} /\ ~a.system)
  BY <1>2, Zenon
<1>4. AD!NamespacesToBeta(a) = AD!Sanitized(n)
  BY <1>2, <1>3, Zenon DEF AD!NamespacesToBeta, AD!Sanitized
<1>5. QED
  BY <1>4, ValidSelectors, Zenon DEF a

LEMMA ContainersComeBack ==
    ASSUME NilIsNoValue, NEW k, k = Nil \/ IsSelector(k)
    PROVE  AD!Given(AD!ContainersToBeta(AD!ContainersToAlpha(k)), Pick(Nil, Nil)) = AD!Given(k, Pick(Nil, Nil))
<1> DEFINE a == AD!ContainersToAlpha(k)
<1>1. CASE k = Nil
  <2>1. a = [include |-> Nil, exclude |-> Nil]
    BY <1>1, Zenon DEF AD!ContainersToAlpha, AD!Selector
  <2> HIDE DEF a
  <2>2. AD!ContainersToBeta(a) = Nil
    BY <2>1, Zenon DEF AD!ContainersToBeta
  <2>3. QED
    BY <1>1, <2>2, Zenon DEF a
<1>2. CASE k # Nil
  <2>1. a = [include |-> k.include, exclude |-> k.exclude] /\ a = k
    BY <1>2, Zenon DEF AD!ContainersToAlpha, AD!Selector, IsSelector
  <2>2. CASE k.include = Nil /\ k.exclude = Nil
    <3>1. AD!ContainersToBeta(k) = Nil /\ k = Pick(Nil, Nil)
      BY <1>2, <2>2, Zenon DEF AD!ContainersToBeta, IsSelector, AD!Selector, Pick
    <3>2. QED
      BY <1>2, <2>1, <3>1, Zenon DEF AD!Given
  <2>3. CASE ~(k.include = Nil /\ k.exclude = Nil)
    <3>1. AD!ContainersToBeta(k) = k
      BY <1>2, <2>3, Zenon DEF AD!ContainersToBeta, IsSelector, AD!Selector
    <3>2. QED
      BY <2>1, <3>1, Zenon
  <2>4. QED
    BY <2>2, <2>3, Zenon
<1>3. QED
  BY <1>1, <1>2, Zenon

LEMMA HTTPOutputComesBack ==
    ASSUME NilIsNoValue, NEW h, IsBetaHTTPOutput(h)
    PROVE  AD!FluentBitHTTPOutputToBeta(AD!FluentBitHTTPOutputToAlpha(h)) = h
<1>1. ASSUME NEW v, v = Nil \/ IsValue(v) PROVE AD!ValueTypeOrNil(v) = v
  <2>1. CASE v = Nil
    BY <2>1, Zenon DEF AD!ValueTypeOrNil
  <2>2. CASE IsValue(v)
    BY <2>2, Zenon DEF AD!ValueTypeOrNil, IsValue
  <2>3. QED
    BY <1>1, <2>1, <2>2, Zenon
<1>2. AD!ValueType(h.host) = h.host
  BY Zenon DEF IsBetaHTTPOutput, IsValue
<1>3. AD!FluentBitHTTPOutputTLSToOutputTLS(AD!OutputTLSToFluentBitHTTPOutputTLS(h.tls)) = h.tls
  <2> DEFINE x == h.tls
             a == AD!OutputTLSToFluentBitHTTPOutputTLS(x)
  <2>1. /\ x = [insecure |-> x.insecure, insecureSkipVerify |-> x.insecureSkipVerify,
                ca |-> x.ca, cert |-> x.cert, key |-> x.key]
        /\ x.ca = Nil \/ IsValue(x.ca)
        /\ x.cert = Nil \/ IsValue(x.cert)
        /\ x.key = Nil \/ IsValue(x.key)
    BY Zenon DEF IsBetaHTTPOutput
  <2> HIDE DEF x
  <2>2. /\ a.disabled = x.insecure /\ a.skipCertificateValidation = x.insecureSkipVerify
        /\ a.ca = AD!ValueTypeOrNil(x.ca) /\ a.cert = AD!ValueTypeOrNil(x.cert)
        /\ a.key = AD!ValueTypeOrNil(x.key)
    BY Zenon DEF AD!OutputTLSToFluentBitHTTPOutputTLS
  <2> HIDE DEF a
  <2>3. AD!FluentBitHTTPOutputTLSToOutputTLS(a) = x
    BY <1>1, <2>1, <2>2, Zenon DEF AD!FluentBitHTTPOutputTLSToOutputTLS
  <2>4. QED
    BY <2>3, Zenon DEF a, x
<1>4. QED
  <2> DEFINE a == AD!FluentBitHTTPOutputToAlpha(h)
  <2>1. /\ a.host = AD!ValueType(h.host) /\ a.request = h.request
        /\ a.tls = AD!OutputTLSToFluentBitHTTPOutputTLS(h.tls)
    BY Zenon DEF AD!FluentBitHTTPOutputToAlpha
  <2> HIDE DEF a
  <2>2. AD!FluentBitHTTPOutputToBeta(a) = [host |-> h.host, request |-> h.request, tls |-> h.tls]
    BY <1>2, <1>3, <2>1, Zenon DEF AD!FluentBitHTTPOutputToBeta
  <2>3. QED
    BY <2>2, Zenon DEF a, IsBetaHTTPOutput

\* The compression of an output is lost, and nothing else.
LEMMA OutputComesBack ==
    ASSUME NilIsNoValue, NEW x, IsBetaOTLPOutput(x), x.protocol # ""
    PROVE  LET q == AD!OTLPOutputToBeta(AD!DefaultProtocol(AD!OTLPOutputToAlpha(x)))
           IN  q # Nil /\ WithoutCompression(q) = WithoutCompression(x)
<1> DEFINE a == AD!OTLPOutputToAlpha(x)
           R(z) == [protocol |-> x.protocol, endpoint |-> x.endpoint, path |-> x.path,
                    authentication |-> x.authentication, headers |-> x.headers, tls |-> x.tls,
                    compression |-> z]
<1>1. AD!ValueType(x.endpoint) = x.endpoint
  BY Zenon DEF IsBetaOTLPOutput, IsValue
<1>2. /\ a.protocol = x.protocol /\ a.endpoint = x.endpoint /\ a.path = x.path
      /\ a.authentication = x.authentication /\ a.headers = x.headers /\ a.tls = x.tls
  BY <1>1, Zenon DEF AD!OTLPOutputToAlpha
<1>3. AD!DefaultProtocol(a) = a
  BY <1>2, Zenon DEF AD!DefaultProtocol
<1> HIDE DEF a
<1>4. AD!OTLPOutputToBeta(a) = R("")
  BY <1>1, <1>2, Zenon DEF AD!OTLPOutputToBeta
<1>5. x = R(x.compression)
  BY Zenon DEF IsBetaOTLPOutput
<1> DEFINE F == {"protocol", "endpoint", "path", "authentication", "headers", "tls"}
<1>6. ASSUME NEW z PROVE WithoutCompression(R(z)) = [f \in F |-> a[f]]
  <2> DEFINE w == R(z)
  <2>1. DOMAIN w \ {"compression"} = F
    BY Zenon
  <2>2. \A f \in F : w[f] = a[f]
    <3>1. /\ w.protocol = x.protocol /\ w.endpoint = x.endpoint /\ w.path = x.path
          /\ w.authentication = x.authentication /\ w.headers = x.headers /\ w.tls = x.tls
      BY Zenon
    <3> HIDE DEF w
    <3>2. QED
      BY <1>2, <3>1, Zenon
  <2> HIDE DEF w, F
  <2>3. WithoutCompression(w) = [f \in F |-> w[f]]
    BY <2>1, Zenon DEF WithoutCompression
  <2>4. QED
    BY <2>2, <2>3, Zenon DEF w
<1>7. AD!OTLPOutputToBeta(a) # Nil
  BY StructsAreNotNil, Zenon DEF AD!OTLPOutputToBeta
<1> HIDE DEF R
<1>8. WithoutCompression(AD!OTLPOutputToBeta(a)) = WithoutCompression(x)
  BY <1>4, <1>5, <1>6, Zenon
<1>9. QED
  BY <1>3, <1>7, <1>8, Zenon DEF a

LEMMA DefaultedOutput ==
    ASSUME NilIsNoValue, NEW o, IsBetaOTLPOutput(o)
    PROVE  LET x == AD!DefaultProtocol(o) IN IsBetaOTLPOutput(x) /\ x.protocol # "" /\ x # Nil
<1> DEFINE x == AD!DefaultProtocol(o)
<1>1. CASE o.protocol # ""
  BY <1>1, StructsAreNotNil, Zenon DEF AD!DefaultProtocol, IsBetaOTLPOutput
<1>2. CASE o.protocol = ""
  <2>1. x = [o EXCEPT !.protocol = "grpc"]
    BY <1>2, Zenon DEF AD!DefaultProtocol
  <2>2. x = [protocol |-> "grpc", endpoint |-> o.endpoint, path |-> o.path,
             authentication |-> o.authentication, headers |-> o.headers, tls |-> o.tls,
             compression |-> o.compression]
    BY <2>1, Zenon DEF IsBetaOTLPOutput
  <2> HIDE DEF x
  <2>3. x.protocol = "grpc" /\ x.endpoint = o.endpoint
    BY <2>2, Zenon
  <2>4. "grpc" # ""
    OBVIOUS
  <2>5. IsBetaOTLPOutput(x)
    BY <2>2, Zenon DEF IsBetaOTLPOutput
  <2>6. x # Nil
    BY <2>2, StructsAreNotNil, Zenon
  <2>7. QED
    BY <2>3, <2>4, <2>5, <2>6, Zenon DEF x
<1>3. QED
  BY <1>1, <1>2, Zenon

\* The inputs as the defaulters of v1beta1 leave them.
LEMMA DefaultedRuntime ==
    ASSUME NilIsNoValue, NEW b, b = Nil \/ IsBetaRuntime(b)
    PROVE  LET r == AD!RuntimeDefaults(b)
           IN  /\ r # Nil /\ r.enabled \in BOOLEAN
               /\ r.enabled => /\ r.namespaces # Nil /\ IsBetaNamespaces(r.namespaces)
                               /\ r.keepOriginalBody # Nil
               /\ r.containers = Nil \/ IsSelector(r.containers)
<1> DEFINE r == AD!RuntimeDefaults(b)
<1>1. CASE b = Nil
  <2>1. /\ r # Nil /\ r.enabled = TRUE /\ r.namespaces = AD!ExcludeSystem /\ r.containers = Nil
        /\ r.keepOriginalBody = TRUE
    BY <1>1, MissingInput, Zenon
  <2>2. AD!ExcludeSystem # Nil /\ IsBetaNamespaces(AD!ExcludeSystem) /\ TRUE # Nil
    BY DefaultSelectors, ValidSelectors, StructsAreNotNil, Zenon
  <2> HIDE DEF r
  <2>3. /\ r # Nil /\ r.enabled \in BOOLEAN /\ r.containers = Nil
        /\ r.namespaces # Nil /\ IsBetaNamespaces(r.namespaces) /\ r.keepOriginalBody # Nil
    BY <2>1, <2>2, Zenon
  <2>4. QED
    BY <2>3, Zenon DEF r
<1>2. CASE IsBetaRuntime(b)
  <2>1. b # Nil
    BY <1>2, Zenon DEF IsBetaRuntime, AD!RuntimeInput, NilIsNoValue
  <2> DEFINE on == AD!Given(b.enabled, TRUE)
  <2>2. /\ r # Nil
        /\ r.enabled = on
        /\ r.keepOriginalBody = IF on THEN AD!Given(b.keepOriginalBody, TRUE) ELSE b.keepOriginalBody
        /\ r.namespaces = IF on THEN AD!Given(b.namespaces, AD!ExcludeSystem) ELSE b.namespaces
        /\ r.containers = b.containers
    BY <2>1, RuntimeFields, Zenon
  <2>3. on \in BOOLEAN
    BY <1>2, Zenon DEF IsBetaRuntime, IsFlag, AD!Given
  <2>4. /\ AD!Given(b.namespaces, AD!ExcludeSystem) # Nil
        /\ IsBetaNamespaces(AD!Given(b.namespaces, AD!ExcludeSystem))
    BY <1>2, DefaultSelectors, ValidSelectors, Zenon DEF IsBetaRuntime, AD!Given
  <2>5. AD!Given(b.keepOriginalBody, TRUE) # Nil
    BY StructsAreNotNil, Zenon DEF AD!Given
  <2>6. b.containers = Nil \/ IsSelector(b.containers)
    BY <1>2, Zenon DEF IsBetaRuntime
  <2> HIDE DEF r, on
  <2>7. QED
    BY <2>2, <2>3, <2>4, <2>5, <2>6, Zenon DEF r
<1>3. QED
  BY <1>1, <1>2, Zenon

LEMMA DefaultedOTLPInput ==
    ASSUME NilIsNoValue, NEW b, b = Nil \/ IsBetaOTLPInput(b)
    PROVE  LET i == AD!OTLPInputDefaultBeta(b)
           IN  /\ i # Nil /\ i.enabled \in BOOLEAN
               /\ i.enabled => i.namespaces # Nil /\ IsBetaNamespaces(i.namespaces)
<1> DEFINE g == AD!Given(b, [enabled |-> Nil, namespaces |-> Nil])
           on == AD!Given(g.enabled, TRUE)
           n == AD!Given(g.namespaces, AD!AnyNamespace)
           i == AD!OTLPInputDefaultBeta(b)
<1>1. g.enabled \in BOOLEAN \cup {Nil} /\ IsBetaNamespaces(g.namespaces)
  <2>1. CASE b = Nil
    <3>1. g = [enabled |-> Nil, namespaces |-> Nil]
      BY <2>1, Zenon DEF AD!Given
    <3> HIDE DEF g
    <3>2. g.enabled = Nil /\ g.namespaces = Nil
      BY <3>1, Zenon
    <3>3. QED
      BY <3>2, Zenon DEF IsBetaNamespaces
  <2>2. CASE IsBetaOTLPInput(b)
    <3>1. b # Nil
      BY <2>2, StructsAreNotNil, Zenon DEF IsBetaOTLPInput
    <3>2. g = b
      BY <3>1, Zenon DEF AD!Given
    <3>3. QED
      BY <2>2, <3>2, Zenon DEF IsBetaOTLPInput, IsFlag
  <2>3. QED
    BY <2>1, <2>2, Zenon
<1>2. i = [enabled |-> on, namespaces |-> IF on THEN n ELSE g.namespaces]
  BY Zenon DEF AD!OTLPInputDefaultBeta
<1> HIDE DEF g
<1>3. on \in BOOLEAN /\ n # Nil /\ IsBetaNamespaces(n)
  BY <1>1, DefaultSelectors, ValidSelectors, Zenon DEF AD!Given
<1>4. i # Nil
  BY <1>2, StructsAreNotNil, Zenon
<1> HIDE DEF i, on, n
<1>5. i.enabled = on /\ i.namespaces = IF on THEN n ELSE g.namespaces
  BY <1>2, Zenon
<1>6. QED
  BY <1>3, <1>4, <1>5, Zenon DEF i

\* An input that a client of v1alpha1 writes back does what it did.
LEMMA RuntimeComesBack ==
    ASSUME NilIsNoValue, NEW r, r # Nil, r.enabled \in BOOLEAN,
           r.enabled => r.namespaces # Nil /\ IsBetaNamespaces(r.namespaces) /\ r.keepOriginalBody # Nil,
           r.containers = Nil \/ IsSelector(r.containers)
    PROVE  LET q == AD!ApplicationToRuntime(AD!ApplicationDefaults(AD!RuntimeToApplication(r)))
           IN  /\ q # Nil /\ q.enabled = r.enabled
               /\ q.keepAnnotations = r.keepAnnotations /\ q.dropLabels = r.dropLabels
               /\ q.enabled => q.namespaces = r.namespaces /\ q.keepOriginalBody = r.keepOriginalBody
               /\ AD!Given(q.containers, Pick(Nil, Nil)) = AD!Given(r.containers, Pick(Nil, Nil))
<1> DEFINE a == AD!RuntimeToApplication(r)
           d == AD!ApplicationDefaults(a)
           q == AD!ApplicationToRuntime(d)
<1>1. a = AD!RuntimeInput(r, AD!NamespacesToAlpha(r.namespaces), AD!ContainersToAlpha(r.containers))
  BY Zenon DEF AD!RuntimeToApplication
<1>2. a # Nil
  BY <1>1, Zenon DEF AD!RuntimeInput, NilIsNoValue
<1>3. /\ a.enabled = r.enabled /\ a.keepAnnotations = r.keepAnnotations /\ a.dropLabels = r.dropLabels
      /\ a.keepOriginalBody = r.keepOriginalBody
      /\ a.namespaces = AD!NamespacesToAlpha(r.namespaces)
      /\ a.containers = AD!ContainersToAlpha(r.containers)
  <2> HIDE DEF a
  <2>1. QED  BY <1>1, Zenon DEF AD!RuntimeInput
<1>4. /\ d # Nil
      /\ d.enabled = AD!Given(a.enabled, TRUE)
      /\ d.keepOriginalBody = AD!Given(a.keepOriginalBody, TRUE)
      /\ d.keepAnnotations = a.keepAnnotations /\ d.dropLabels = a.dropLabels
      /\ d.namespaces = a.namespaces /\ d.containers = a.containers
  BY <1>2, ApplicationFields, Zenon
<1>5. /\ q # Nil
      /\ q.enabled = d.enabled /\ q.keepOriginalBody = d.keepOriginalBody
      /\ q.keepAnnotations = d.keepAnnotations /\ q.dropLabels = d.dropLabels
      /\ q.namespaces = AD!NamespacesToBeta(d.namespaces)
      /\ q.containers = AD!ContainersToBeta(d.containers)
  BY <1>4, ConvertedFields, Zenon
<1>6. AD!Given(r.enabled, TRUE) = r.enabled
  BY StructsAreNotNil, Zenon DEF AD!Given, NilIsNoValue
<1>7. r.enabled => AD!Given(r.keepOriginalBody, TRUE) = r.keepOriginalBody
  BY Zenon DEF AD!Given
<1>8. r.enabled => AD!NamespacesToBeta(AD!NamespacesToAlpha(r.namespaces)) = r.namespaces
  BY NamespacesComeBack, Zenon
<1>9. AD!Given(AD!ContainersToBeta(AD!ContainersToAlpha(r.containers)), Pick(Nil, Nil)) =
        AD!Given(r.containers, Pick(Nil, Nil))
  BY ContainersComeBack, Zenon
<1> HIDE DEF a, d, q
<1>10. /\ q # Nil /\ q.enabled = r.enabled
       /\ q.keepAnnotations = r.keepAnnotations /\ q.dropLabels = r.dropLabels
       /\ q.enabled => q.namespaces = r.namespaces /\ q.keepOriginalBody = r.keepOriginalBody
       /\ AD!Given(q.containers, Pick(Nil, Nil)) = AD!Given(r.containers, Pick(Nil, Nil))
  BY <1>3, <1>4, <1>5, <1>6, <1>7, <1>8, <1>9, Zenon
<1>11. QED
  BY <1>10, Zenon DEF a, d, q

LEMMA OTLPInputComesBack ==
    ASSUME NilIsNoValue, NEW i, i # Nil, i.enabled \in BOOLEAN,
           i.enabled => i.namespaces # Nil /\ IsBetaNamespaces(i.namespaces)
    PROVE  Does(AD!OTLPInputToBeta(AD!OTLPInputDefaultAlpha(AD!OTLPInputToAlpha(i))), Nil) = Does(i, Nil)
<1> DEFINE a == AD!OTLPInputToAlpha(i)
           d == AD!OTLPInputDefaultAlpha(a)
           q == AD!OTLPInputToBeta(d)
           s == IF i.namespaces = Nil THEN Nil ELSE AD!Sanitized(i.namespaces)
           n == AD!Given(s, AD!AnyNamespace)
<1>1. n # Nil
  BY DefaultSelectors, Zenon DEF AD!Given
<1>2. a = [disabled |-> (i.enabled # Nil /\ i.enabled = FALSE), namespaces |-> s]
  BY Zenon DEF AD!OTLPInputToAlpha
<1>3. a # Nil
  BY <1>2, StructsAreNotNil, Zenon
<1> HIDE DEF a, s
<1>4. a.disabled = (i.enabled # Nil /\ i.enabled = FALSE) /\ a.namespaces = s
  BY <1>2, Zenon
<1>5. d = [disabled |-> a.disabled, namespaces |-> n]
  BY <1>3, <1>4, Zenon DEF AD!OTLPInputDefaultAlpha, AD!Given
<1>6. d # Nil
  BY <1>5, StructsAreNotNil, Zenon
<1> HIDE DEF d, n
<1>7. d.disabled = a.disabled /\ d.namespaces = n
  BY <1>5, Zenon
<1>8. q = [enabled |-> ~d.disabled, namespaces |-> AD!Sanitized(n)]
  BY <1>1, <1>6, <1>7, Zenon DEF AD!OTLPInputToBeta
<1>9. q # Nil
  BY <1>8, StructsAreNotNil, Zenon
<1> HIDE DEF q
<1>10. q.enabled = ~d.disabled /\ q.namespaces = AD!Sanitized(n)
  BY <1>8, Zenon
<1>11. CASE i.enabled
  <2>1. TRUE # FALSE
    OBVIOUS
  <2>2. i.enabled = TRUE
    BY <1>11, Zenon
  <2>3. ~a.disabled
    BY <1>4, <2>1, <2>2, Zenon
  <2>4. q.enabled
    BY <1>7, <1>10, <2>3, Zenon
  <2>5. q.enabled = TRUE
    BY <1>10, <2>4, Zenon
  <2>6. q.namespaces = i.namespaces
    <3>1. s = i.namespaces
      BY <1>11, ValidSelectors, Zenon DEF s
    <3>2. n = i.namespaces
      BY <1>11, <3>1, Zenon DEF n, AD!Given
    <3>3. QED
      BY <1>10, <1>11, <3>2, ValidSelectors, Zenon
  <2>7. Does(q, Nil) = Does(i, Nil)
    BY <1>9, <2>2, <2>5, <2>6, Zenon DEF Does, AD!InputEnabled, Chosen
  <2>8. QED
    BY <2>7, Zenon DEF q, d, a
<1>12. CASE ~i.enabled
  <2>1. i.enabled = FALSE /\ FALSE # Nil
    BY <1>12, StructsAreNotNil, Zenon
  <2>2. a.disabled
    BY <1>4, <2>1, Zenon
  <2>3. q.enabled = FALSE
    BY <1>7, <1>10, <2>2, Zenon
  <2>4. Does(q, Nil) = Nil /\ Does(i, Nil) = Nil
    BY <2>1, <2>3, DisabledInput, Zenon
  <2>5. QED
    BY <2>4, Zenon DEF q, d, a
<1>13. QED
  BY <1>11, <1>12, Zenon

LEMMA LogToAlphaFields ==
    ASSUME NEW s
    PROVE  LET d == AD!LogPipelineSpecToAlpha(s)
           IN  /\ d.input.application = AD!RuntimeToApplication(s.input.runtime)
               /\ d.input.otlp = AD!OTLPInputToAlpha(s.input.otlp)
               /\ d.output.custom = s.output.custom
               /\ d.output.http = IF s.output.http = Nil THEN Nil
                                  ELSE AD!FluentBitHTTPOutputToAlpha(s.output.http)
               /\ d.output.otlp = IF s.output.otlp = Nil THEN Nil ELSE AD!OTLPOutputToAlpha(s.output.otlp)
               /\ d.filters = s.filters /\ d.files = s.files /\ d.variables = s.variables
               /\ d.transform = s.transform /\ d.filter = s.filter
BY Zenon DEF AD!LogPipelineSpecToAlpha, AD!LogPipelineInputToAlpha, AD!LogPipelineOutputToAlpha

\* What a client of v1beta1 has written keeps its effect when a client of v1alpha1 writes
\* back what the conversion makes of it.
LEMMA LogComesBack ==
    ASSUME NilIsNoValue, NEW b, IsBetaLogSpec(b), NEW x, x = AD!LogPipelineDefaultBeta(b)
    PROVE  Effect(AD!Log, AD!LogPipelineSpecToBeta(AD!LogPipelineDefaultAlpha(AD!LogPipelineSpecToAlpha(x)))) =
             Effect(AD!Log, x)
<1> DEFINE a == AD!LogPipelineSpecToAlpha(x)
           d == AD!LogPipelineDefaultAlpha(a)
           q == AD!LogPipelineSpecToBeta(d)
<1>1. /\ x.input.runtime = AD!RuntimeDefaults(b.input.runtime)
      /\ x.input.otlp = IF b.output.otlp = Nil THEN b.input.otlp
                        ELSE AD!OTLPInputDefaultBeta(b.input.otlp)
      /\ x.output.http = b.output.http
      /\ x.output.otlp = IF b.output.otlp = Nil THEN Nil ELSE AD!DefaultProtocol(b.output.otlp)
  BY LogBetaFields, Zenon
<1>2. /\ a.input.application = AD!RuntimeToApplication(x.input.runtime)
      /\ a.input.otlp = AD!OTLPInputToAlpha(x.input.otlp)
      /\ a.output.http = IF x.output.http = Nil THEN Nil ELSE AD!FluentBitHTTPOutputToAlpha(x.output.http)
      /\ a.output.otlp = IF x.output.otlp = Nil THEN Nil ELSE AD!OTLPOutputToAlpha(x.output.otlp)
      /\ a.output.custom = x.output.custom /\ a.filters = x.filters /\ a.files = x.files
      /\ a.variables = x.variables /\ a.transform = x.transform /\ a.filter = x.filter
  BY LogToAlphaFields, Zenon
<1>3. /\ d.input.application = AD!ApplicationDefaults(a.input.application)
      /\ d.input.otlp = IF a.output.otlp = Nil THEN a.input.otlp
                        ELSE AD!OTLPInputDefaultAlpha(a.input.otlp)
      /\ d.output.http = a.output.http
      /\ d.output.otlp = IF a.output.otlp = Nil THEN Nil ELSE AD!DefaultProtocol(a.output.otlp)
      /\ d.output.custom = a.output.custom /\ d.filters = a.filters /\ d.files = a.files
      /\ d.variables = a.variables /\ d.transform = a.transform /\ d.filter = a.filter
  BY LogAlphaFields, Zenon
<1>4. /\ q.input.runtime = AD!ApplicationToRuntime(d.input.application)
      /\ q.input.otlp = AD!OTLPInputToBeta(d.input.otlp)
      /\ q.output.http = IF d.output.http = Nil THEN Nil ELSE AD!FluentBitHTTPOutputToBeta(d.output.http)
      /\ q.output.otlp = IF d.output.otlp = Nil THEN Nil ELSE AD!OTLPOutputToBeta(d.output.otlp)
      /\ q.output.custom = d.output.custom /\ q.filters = d.filters /\ q.files = d.files
      /\ q.variables = d.variables /\ q.transform = d.transform /\ q.filter = d.filter
  BY LogConvertedFields, Zenon
<1> HIDE DEF a, d, q
<1> DEFINE qr == q.input.runtime
           xr == x.input.runtime
<1>5. /\ xr # Nil /\ xr.enabled \in BOOLEAN
      /\ xr.enabled => xr.namespaces # Nil /\ IsBetaNamespaces(xr.namespaces) /\ xr.keepOriginalBody # Nil
      /\ xr.containers = Nil \/ IsSelector(xr.containers)
  BY <1>1, DefaultedRuntime, Zenon DEF IsBetaLogSpec
<1>6. qr = AD!ApplicationToRuntime(AD!ApplicationDefaults(AD!RuntimeToApplication(xr)))
  BY <1>2, <1>3, <1>4, Zenon
<1>7. /\ qr # Nil /\ qr.enabled = xr.enabled
      /\ qr.keepAnnotations = xr.keepAnnotations /\ qr.dropLabels = xr.dropLabels
      /\ qr.enabled => qr.namespaces = xr.namespaces /\ qr.keepOriginalBody = xr.keepOriginalBody
      /\ AD!Given(qr.containers, Pick(Nil, Nil)) = AD!Given(xr.containers, Pick(Nil, Nil))
  <2> HIDE DEF qr, xr
  <2>1. QED  BY <1>5, <1>6, RuntimeComesBack, Zenon
<1>8. Does(qr, [f \in {"keepOriginalBody", "keepAnnotations", "dropLabels"} |-> qr[f]]) =
        Does(xr, [f \in {"keepOriginalBody", "keepAnnotations", "dropLabels"} |-> xr[f]])
  <2> HIDE DEF qr, xr
  <2>1. QED  BY <1>5, <1>7, SameRuntime, Zenon
<1>9. q.output.http = x.output.http
  <2>1. \A h : AD!FluentBitHTTPOutputToAlpha(h) # Nil
    BY StructsAreNotNil, Zenon DEF AD!FluentBitHTTPOutputToAlpha
  <2>2. CASE x.output.http = Nil
    BY <1>2, <1>3, <1>4, <2>2, Zenon
  <2>3. CASE x.output.http # Nil
    <3>1. q.output.http = AD!FluentBitHTTPOutputToBeta(AD!FluentBitHTTPOutputToAlpha(x.output.http))
      BY <1>2, <1>3, <1>4, <2>1, <2>3
    <3>2. IsBetaHTTPOutput(x.output.http)
      BY <1>1, <2>3, Zenon DEF IsBetaLogSpec
    <3>3. QED
      BY <3>1, <3>2, HTTPOutputComesBack, Zenon
  <2>4. QED
    BY <2>2, <2>3, Zenon
<1>10. \/ q.output.otlp = Nil /\ x.output.otlp = Nil
       \/ /\ q.output.otlp # Nil /\ x.output.otlp # Nil
          /\ WithoutCompression(q.output.otlp) = WithoutCompression(x.output.otlp)
  <2>1. \A o : AD!OTLPOutputToAlpha(o) # Nil
    BY StructsAreNotNil, Zenon DEF AD!OTLPOutputToAlpha
  <2>2. CASE b.output.otlp = Nil
    BY <1>1, <1>2, <1>3, <1>4, <2>2, Zenon
  <2>3. CASE b.output.otlp # Nil
    <3> DEFINE o == x.output.otlp
               p == AD!DefaultProtocol(AD!OTLPOutputToAlpha(o))
    <3>1. IsBetaOTLPOutput(b.output.otlp)
      BY <2>3, Zenon DEF IsBetaLogSpec
    <3>2. o = AD!DefaultProtocol(b.output.otlp)
      BY <1>1, <2>3, Zenon
    <3>3. IsBetaOTLPOutput(o) /\ o.protocol # "" /\ o # Nil
      BY <3>1, <3>2, DefaultedOutput, Zenon
    <3>4. d.output.otlp = p
      BY <1>2, <1>3, <2>1, <3>3, Zenon
    <3>5. p # Nil
      BY <2>1, ProtocolNotNil, Zenon
    <3>6. q.output.otlp = AD!OTLPOutputToBeta(p)
      BY <1>4, <3>4, <3>5, Zenon
    <3>7. QED
      BY <3>3, <3>6, OutputComesBack, Zenon
  <2>4. QED
    BY <2>2, <2>3, Zenon
<1>11. Does(q.input.otlp, Nil) = Does(x.input.otlp, Nil)
  <2>1. \A o : AD!OTLPOutputToAlpha(o) # Nil
    BY StructsAreNotNil, Zenon DEF AD!OTLPOutputToAlpha
  <2>2. CASE b.output.otlp = Nil
    <3>1. b.input.otlp = Nil
      BY <2>2, Zenon DEF IsBetaLogSpec
    <3>2. x.input.otlp = Nil
      BY <1>1, <2>2, <3>1, Zenon
    <3>3. a.input.otlp = Nil
      BY <1>2, <3>2, Zenon DEF AD!OTLPInputToAlpha
    <3>4. d.input.otlp = Nil
      BY <1>1, <1>2, <1>3, <2>2, <3>3, Zenon
    <3>5. q.input.otlp = Nil
      BY <1>4, <3>4, Zenon DEF AD!OTLPInputToBeta
    <3>6. QED
      BY <3>2, <3>5, Zenon
  <2>3. CASE b.output.otlp # Nil
    <3> DEFINE i == x.input.otlp
    <3>1. i = AD!OTLPInputDefaultBeta(b.input.otlp)
      BY <1>1, <2>3, Zenon
    <3>2. /\ i # Nil /\ i.enabled \in BOOLEAN
          /\ i.enabled => i.namespaces # Nil /\ IsBetaNamespaces(i.namespaces)
      BY <3>1, DefaultedOTLPInput, Zenon DEF IsBetaLogSpec
    <3>3. x.output.otlp # Nil
      BY <1>1, <2>3, ProtocolNotNil, Zenon
    <3>4. d.input.otlp = AD!OTLPInputDefaultAlpha(AD!OTLPInputToAlpha(i))
      BY <1>2, <1>3, <2>1, <3>3, Zenon
    <3>5. q.input.otlp = AD!OTLPInputToBeta(AD!OTLPInputDefaultAlpha(AD!OTLPInputToAlpha(i)))
      BY <1>4, <3>4, Zenon
    <3>6. QED
      BY <3>2, <3>5, OTLPInputComesBack, Zenon
  <2>4. QED
    BY <2>2, <2>3, Zenon
<1>12. /\ q.output.custom = x.output.custom /\ q.filters = x.filters /\ q.files = x.files
       /\ q.variables = x.variables /\ q.transform = x.transform /\ q.filter = x.filter
  BY <1>2, <1>3, <1>4, Zenon
<1>13. Effect(AD!Log, q) = Effect(AD!Log, x)
  BY <1>5, <1>7, <1>8, <1>9, <1>10, <1>11, <1>12, SameLogEffect
<1>14. QED
  BY <1>13, Zenon DEF q, d, a

\* LogPipelines as the API server stores them.

\* A client of v1alpha1 has written last.
LEMMA LogWrittenInAlpha ==
    ASSUME NilIsNoValue, NEW s, NEW g
    PROVE  LET d == AD!LogPipelineDefaultAlpha(s)
               object == AD!LogPipelineConvertTo([spec |-> d, generation |-> g])
           IN  /\ object.spec = AD!LogPipelineSpecToBeta(d)
               /\ AD!LogPipelineConvertFrom(object).spec = d
<1> DEFINE d == AD!LogPipelineDefaultAlpha(s)
           object == AD!LogPipelineConvertTo([spec |-> d, generation |-> g])
           data == [spec |-> d, generation |-> g]
<1> HIDE DEF d
<1>1. data # Nil /\ data.spec = d /\ data.generation = g
  BY StructsAreNotNil, Zenon
<1>2. object = [spec |-> AD!LogPipelineSpecToBeta(d), generation |-> g, data |-> data]
  BY Zenon DEF AD!LogPipelineConvertTo, AD!marshalData
<1> HIDE DEF object, data
<1>3. object.spec = AD!LogPipelineSpecToBeta(d) /\ object.generation = g /\ object.data = data
  BY <1>2, Zenon
<1>4. AD!LogPipelineConvertFrom(object).spec = d
  BY <1>1, <1>3, Zenon DEF AD!LogPipelineConvertFrom
<1>5. QED
  BY <1>3, <1>4, Zenon DEF object, d

\* A stored LogPipeline: either the annotation is up to date, and then it holds the spec of
\* v1alpha1 that the stored one was converted from, or a client of v1beta1 has written last.
LogStored(o) ==
    /\ o.generation \in Nat
    /\ o.data = Nil \/ (o.data.generation \in Nat /\ o.data.generation <= o.generation)
    /\ \/ /\ o.data # Nil /\ o.data.generation = o.generation
          /\ \E a : o.data.spec = AD!LogPipelineDefaultAlpha(a)
          /\ o.spec = AD!LogPipelineSpecToBeta(o.data.spec)
       \/ /\ ~(o.data # Nil /\ o.data.generation = o.generation)
          /\ \E b : IsBetaLogSpec(b) /\ o.spec = AD!LogPipelineDefaultBeta(b)

LEMMA LogStoredInAlpha ==
    ASSUME NilIsNoValue, NEW s, NEW g \in Nat
    PROVE  LogStored(AD!LogPipelineConvertTo([spec |-> AD!LogPipelineDefaultAlpha(s), generation |-> g]))
<1> DEFINE d == AD!LogPipelineDefaultAlpha(s)
           o == AD!LogPipelineConvertTo([spec |-> d, generation |-> g])
           data == [spec |-> d, generation |-> g]
<1>0. d = AD!LogPipelineDefaultAlpha(s)
  OBVIOUS
<1> HIDE DEF d
<1>1. data # Nil /\ data.spec = d /\ data.generation = g
  BY StructsAreNotNil, Zenon
<1>2. o = [spec |-> AD!LogPipelineSpecToBeta(d), generation |-> g, data |-> data]
  BY Zenon DEF AD!LogPipelineConvertTo, AD!marshalData
<1> HIDE DEF o, data
<1>3. o.spec = AD!LogPipelineSpecToBeta(d) /\ o.generation = g /\ o.data = data
  BY <1>2, Zenon
<1>4. g <= g
  OBVIOUS
<1>5. LogStored(o)
  BY <1>0, <1>1, <1>3, <1>4, Zenon DEF LogStored
<1>6. QED
  BY <1>5, Zenon DEF o, d

LEMMA LogStoredInBeta ==
    ASSUME NilIsNoValue, NEW b, IsBetaLogSpec(b), NEW o, NEW keep, LogStored(o)
    PROVE  LET new == AD!LogPipelineDefaultBeta(b)
           IN  LogStored([spec |-> new, generation |-> AD!Generation(o, new),
                          data |-> IF keep THEN o.data ELSE Nil])
<1> DEFINE new == AD!LogPipelineDefaultBeta(b)
           g == AD!Generation(o, new)
           data == IF keep THEN o.data ELSE Nil
           p == [spec |-> new, generation |-> g, data |-> data]
<1>0. \E c : IsBetaLogSpec(c) /\ new = AD!LogPipelineDefaultBeta(c)
  OBVIOUS
<1> HIDE DEF new
<1>1. (o.spec = new /\ g = o.generation) \/ (o.spec # new /\ g = o.generation + 1)
  BY Zenon DEF AD!Generation
<1>2. g \in Nat
  BY <1>1 DEF LogStored
<1>3. data = Nil \/ (data = o.data /\ o.data # Nil)
  BY Zenon
<1> HIDE DEF g, data
<1>4. p.spec = new /\ p.generation = g /\ p.data = data
  BY Zenon
<1> HIDE DEF p
<1>5. ASSUME data = Nil PROVE LogStored(p)
  BY <1>0, <1>2, <1>4, <1>5, Zenon DEF LogStored
<1>6. ASSUME data = o.data, o.data # Nil, o.spec # new PROVE LogStored(p)
  <2>1. data.generation \in Nat /\ data.generation <= g /\ data.generation # g
    BY <1>1, <1>6 DEF LogStored
  <2>2. QED
    BY <1>0, <1>2, <1>4, <1>6, <2>1, Zenon DEF LogStored
<1>7. ASSUME data = o.data, o.data # Nil, o.spec = new PROVE LogStored(p)
  BY <1>0, <1>1, <1>4, <1>7, ZenonT(30) DEF LogStored
<1>8. LogStored(p)
  BY <1>3, <1>5, <1>6, <1>7, Zenon
<1>9. QED
  BY <1>8, Zenon DEF p, g, data, new

\* A client of v1alpha1 may write back what it reads.
LEMMA LogWriteBack ==
    ASSUME NilIsNoValue, NEW o, LogStored(o), NEW g
    PROVE  LET d == AD!LogPipelineDefaultAlpha(AD!LogPipelineConvertFrom(o).spec)
           IN  Effect(AD!Log, AD!LogPipelineConvertTo([spec |-> d, generation |-> g]).spec) =
                 Effect(AD!Log, o.spec)
<1> DEFINE a == AD!LogPipelineConvertFrom(o).spec
           d == AD!LogPipelineDefaultAlpha(a)
<1>1. AD!LogPipelineConvertTo([spec |-> d, generation |-> g]).spec = AD!LogPipelineSpecToBeta(d)
  BY LogWrittenInAlpha, Zenon
<1>2. a = IF o.data # Nil /\ o.data.generation = o.generation THEN o.data.spec
          ELSE AD!LogPipelineSpecToAlpha(o.spec)
  BY Zenon DEF AD!LogPipelineConvertFrom
<1> HIDE DEF a
<1>3. CASE o.data # Nil /\ o.data.generation = o.generation
  <2>1. PICK s : o.data.spec = AD!LogPipelineDefaultAlpha(s)
    BY <1>3, Zenon DEF LogStored
  <2>2. a = AD!LogPipelineDefaultAlpha(s)
    BY <1>2, <1>3, <2>1, Zenon
  <2>3. d = a
    BY <2>2, LogDefaultsOnce, Zenon
  <2>4. AD!LogPipelineSpecToBeta(d) = o.spec
    BY <1>2, <1>3, <2>3, Zenon DEF LogStored
  <2>5. QED
    BY <1>1, <2>4, Zenon DEF a
<1>4. CASE ~(o.data # Nil /\ o.data.generation = o.generation)
  <2>1. PICK b : IsBetaLogSpec(b) /\ o.spec = AD!LogPipelineDefaultBeta(b)
    BY <1>4, Zenon DEF LogStored
  <2>2. a = AD!LogPipelineSpecToAlpha(o.spec)
    BY <1>2, <1>4, Zenon
  <2>3. Effect(AD!Log, AD!LogPipelineSpecToBeta(d)) = Effect(AD!Log, o.spec)
    BY <2>1, <2>2, LogComesBack, Zenon
  <2>4. QED
    BY <1>1, <2>3, Zenon DEF a
<1>5. QED
  BY <1>3, <1>4, Zenon

-----------------------------------------------------------------------------
\* MetricPipelines as the API server stores them: nothing is left to default.

MetricStored(x) ==
    /\ AD!PrometheusDefaults(x.input.prometheus) = x.input.prometheus
    /\ AD!IstioDefaults(x.input.istio) = x.input.istio
    /\ AD!RuntimeInputDefaults(x.input.runtime) = x.input.runtime
    /\ \/ x.input.runtime = Nil
       \/ IsMetricRuntime(x.input.runtime) /\ IsBetaNamespaces(x.input.runtime.namespaces)
    /\ x.input.otlp # Nil /\ x.input.otlp.enabled \in BOOLEAN
    /\ x.input.otlp.enabled => x.input.otlp.namespaces # Nil /\ IsBetaNamespaces(x.input.otlp.namespaces)
    /\ IsBetaOTLPOutput(x.output.otlp) /\ x.output.otlp.protocol # ""
    /\ AD!Given(x.output.temporality, "preserve") = x.output.temporality

LEMMA MetricRuntimeShape ==
    ASSUME NilIsNoValue, NEW i, i = Nil \/ IsMetricRuntime(i)
    PROVE  LET r == AD!RuntimeInputDefaults(i)
           IN  \/ r = Nil
               \/ IsMetricRuntime(r) /\ (IsBetaNamespaces(i.namespaces) => IsBetaNamespaces(r.namespaces))
<1> DEFINE r == AD!RuntimeInputDefaults(i)
           x == AD!applyRuntimeInputResourceDefaults(i.resources)
           n == AD!Given(i.namespaces, AD!ExcludeSystem)
<1>1. CASE ~AD!InputEnabled(i)
  BY <1>1, Zenon DEF AD!RuntimeInputDefaults
<1>2. CASE AD!InputEnabled(i)
  <2>1. r = [enabled |-> TRUE, resources |-> x, additionalMetrics |-> i.additionalMetrics, namespaces |-> n]
    BY <1>2, Zenon DEF AD!RuntimeInputDefaults
  <2>2. IsBetaNamespaces(i.namespaces) => IsBetaNamespaces(n)
    BY ValidSelectors, Zenon DEF AD!Given
  <2> HIDE DEF r, x, n
  <2>3. /\ r.enabled = TRUE /\ r.resources = x /\ r.additionalMetrics = i.additionalMetrics
        /\ r.namespaces = n
    BY <2>1, Zenon
  <2>4. IsMetricRuntime(r)
    BY <2>1, <2>3, Zenon DEF IsMetricRuntime
  <2>5. QED
    BY <2>2, <2>3, <2>4, Zenon DEF r
<1>3. QED
  BY <1>1, <1>2, Zenon

LEMMA MetricStoredInBeta ==
    ASSUME NilIsNoValue, NEW b, IsBetaMetricSpec(b)
    PROVE  MetricStored(AD!MetricPipelineDefaultBeta(b))
<1> DEFINE otlp == AD!OTLPInputDefaultBeta(b.input.otlp)
           x == AD!MetricPipelineWith(b, otlp)
<1>1. AD!MetricPipelineDefaultBeta(b) = x
  BY Zenon DEF AD!MetricPipelineDefaultBeta
<1>2. /\ otlp # Nil /\ otlp.enabled \in BOOLEAN
      /\ otlp.enabled => otlp.namespaces # Nil /\ IsBetaNamespaces(otlp.namespaces)
  BY DefaultedOTLPInput, Zenon DEF IsBetaMetricSpec
<1> HIDE DEF otlp
<1>3. /\ x.input.prometheus = AD!PrometheusDefaults(b.input.prometheus)
      /\ x.input.istio = AD!IstioDefaults(b.input.istio)
      /\ x.input.runtime = AD!RuntimeInputDefaults(b.input.runtime)
      /\ x.input.otlp = otlp
      /\ x.output.otlp = AD!DefaultProtocol(b.output.otlp)
      /\ x.output.temporality = AD!Given(b.output.temporality, "preserve")
  BY MetricWithFields, Zenon
<1> HIDE DEF x
<1>4. /\ AD!PrometheusDefaults(x.input.prometheus) = x.input.prometheus
      /\ AD!IstioDefaults(x.input.istio) = x.input.istio
      /\ AD!RuntimeInputDefaults(x.input.runtime) = x.input.runtime
  BY <1>3, MetricInputsOnce, Zenon
<1>5. \/ x.input.runtime = Nil
      \/ IsMetricRuntime(x.input.runtime) /\ IsBetaNamespaces(x.input.runtime.namespaces)
  <2>1. CASE b.input.runtime = Nil
    BY <1>3, <2>1, Zenon DEF AD!RuntimeInputDefaults, AD!InputEnabled
  <2>2. CASE b.input.runtime # Nil
    BY <1>3, <2>2, MetricRuntimeShape, Zenon DEF IsBetaMetricSpec
  <2>3. QED
    BY <2>1, <2>2, Zenon
<1>6. IsBetaOTLPOutput(x.output.otlp) /\ x.output.otlp.protocol # ""
  BY <1>3, DefaultedOutput, Zenon DEF IsBetaMetricSpec
<1>7. AD!Given(x.output.temporality, "preserve") = x.output.temporality
  BY <1>3, Zenon DEF AD!Given
<1>8. MetricStored(x)
  BY <1>2, <1>3, <1>4, <1>5, <1>6, <1>7, Zenon DEF MetricStored
<1>9. QED
  BY <1>1, <1>8, Zenon

LEMMA ConvertedOutput ==
    ASSUME NEW o, IsAlphaOTLPOutput(o)
    PROVE  LET x == AD!OTLPOutputToBeta(AD!DefaultProtocol(o))
           IN  IsBetaOTLPOutput(x) /\ x.protocol # ""
<1> DEFINE p == AD!DefaultProtocol(o)
           x == AD!OTLPOutputToBeta(p)
<1>1. p.protocol # "" /\ p.endpoint = o.endpoint
  <2>1. CASE o.protocol # ""
    BY <2>1, Zenon DEF AD!DefaultProtocol
  <2>2. CASE o.protocol = ""
    <3>1. p = [o EXCEPT !.protocol = "grpc"]
      BY <2>2, Zenon DEF AD!DefaultProtocol
    <3>2. p = [protocol |-> "grpc", endpoint |-> o.endpoint, path |-> o.path,
               authentication |-> o.authentication, headers |-> o.headers, tls |-> o.tls]
      BY <3>1, Zenon DEF IsAlphaOTLPOutput
    <3> HIDE DEF p
    <3>3. p.protocol = "grpc" /\ p.endpoint = o.endpoint
      BY <3>2, Zenon
    <3>4. "grpc" # ""
      OBVIOUS
    <3>5. QED
      BY <3>3, <3>4, Zenon
  <2>3. QED
    BY <2>1, <2>2, Zenon
<1> HIDE DEF p
<1>2. AD!ValueType(p.endpoint) = p.endpoint /\ IsValue(p.endpoint)
  BY <1>1, Zenon DEF IsAlphaOTLPOutput, IsValue
<1>3. x = [protocol |-> p.protocol, endpoint |-> p.endpoint, path |-> p.path,
           authentication |-> p.authentication, headers |-> p.headers, tls |-> p.tls,
           compression |-> ""]
  BY <1>2, Zenon DEF AD!OTLPOutputToBeta
<1> HIDE DEF x
<1>4. /\ x.protocol = p.protocol /\ x.endpoint = p.endpoint /\ x.path = p.path
      /\ x.authentication = p.authentication /\ x.headers = p.headers /\ x.tls = p.tls
      /\ x.compression = ""
  BY <1>3, Zenon
<1>5. IsBetaOTLPOutput(x)
  BY <1>2, <1>3, <1>4, Zenon DEF IsBetaOTLPOutput
<1>6. QED
  BY <1>1, <1>4, <1>5, Zenon DEF x, p

LEMMA ConvertedOTLPInput ==
    ASSUME NilIsNoValue, NEW i, i = Nil \/ IsAlphaOTLPInput(i)
    PROVE  LET d == AD!OTLPInputDefaultAlpha(i)
               x == AD!OTLPInputToBeta(d)
           IN  /\ d # Nil /\ d.disabled \in BOOLEAN /\ d.namespaces # Nil
               /\ d = [disabled |-> d.disabled, namespaces |-> d.namespaces]
               /\ x = [enabled |-> ~d.disabled, namespaces |-> AD!Sanitized(d.namespaces)]
               /\ x # Nil /\ x.enabled = ~d.disabled /\ x.namespaces = AD!Sanitized(d.namespaces)
<1> DEFINE g == AD!Given(i, [disabled |-> FALSE, namespaces |-> Nil])
           n == AD!Given(g.namespaces, AD!AnyNamespace)
           d == AD!OTLPInputDefaultAlpha(i)
           x == AD!OTLPInputToBeta(d)
<1>1. g.disabled \in BOOLEAN
  <2>1. CASE i = Nil
    <3>1. g = [disabled |-> FALSE, namespaces |-> Nil]
      BY <2>1, Zenon DEF AD!Given
    <3> HIDE DEF g
    <3>2. g.disabled = FALSE
      BY <3>1, Zenon
    <3>3. QED
      BY <3>2, Zenon
  <2>2. CASE i # Nil
    <3>1. g = i
      BY <2>2, Zenon DEF AD!Given
    <3>2. QED
      BY <2>2, <3>1, Zenon DEF IsAlphaOTLPInput
  <2>3. QED
    BY <2>1, <2>2, Zenon
<1>2. d = [disabled |-> g.disabled, namespaces |-> n]
  BY Zenon DEF AD!OTLPInputDefaultAlpha
<1>3. d # Nil
  BY <1>2, StructsAreNotNil, Zenon
<1> HIDE DEF g
<1>4. n # Nil
  BY DefaultSelectors, Zenon DEF AD!Given
<1> HIDE DEF d, n
<1>5. d.disabled = g.disabled /\ d.namespaces = n
  BY <1>2, Zenon
<1>6. x = [enabled |-> ~d.disabled, namespaces |-> AD!Sanitized(d.namespaces)]
  BY <1>3, <1>4, <1>5, Zenon DEF AD!OTLPInputToBeta
<1>7. x # Nil
  BY <1>6, StructsAreNotNil, Zenon
<1> HIDE DEF x
<1>8. x.enabled = ~d.disabled /\ x.namespaces = AD!Sanitized(d.namespaces)
  BY <1>6, Zenon
<1>9. d = [disabled |-> d.disabled, namespaces |-> d.namespaces]
  BY <1>2, <1>5, Zenon
<1>10. d.disabled \in BOOLEAN /\ d.namespaces # Nil
  BY <1>1, <1>4, <1>5, Zenon
<1>11. QED
  BY <1>3, <1>6, <1>7, <1>8, <1>9, <1>10, Zenon DEF x, d

LEMMA ConvertedMetricRuntime ==
    ASSUME NilIsNoValue, NEW r
    PROVE  LET x == AD!MetricPipelineRuntimeInputToBeta(r)
           IN  x = Nil \/ (IsMetricRuntime(x) /\ IsBetaNamespaces(x.namespaces))
<1> DEFINE x == AD!MetricPipelineRuntimeInputToBeta(r)
           n == IF r.namespaces = Nil THEN Nil ELSE AD!Sanitized(r.namespaces)
<1>1. CASE r = Nil
  BY <1>1, Zenon DEF AD!MetricPipelineRuntimeInputToBeta
<1>2. CASE r # Nil
  <2>1. IsBetaNamespaces(n)
    BY ValidSelectors, Zenon DEF IsBetaNamespaces
  <2>2. x = [enabled |-> r.enabled, resources |-> r.resources, additionalMetrics |-> r.additionalMetrics,
             namespaces |-> n]
    BY <1>2, Zenon DEF AD!MetricPipelineRuntimeInputToBeta
  <2> HIDE DEF x, n
  <2>3. /\ x.enabled = r.enabled /\ x.resources = r.resources
        /\ x.additionalMetrics = r.additionalMetrics /\ x.namespaces = n
    BY <2>2, Zenon
  <2>4. IsMetricRuntime(x)
    BY <2>2, <2>3, Zenon DEF IsMetricRuntime
  <2>5. QED
    BY <2>1, <2>3, <2>4, Zenon DEF x
<1>3. QED
  BY <1>1, <1>2, Zenon

LEMMA MetricStoredInAlpha ==
    ASSUME NilIsNoValue, NEW a, IsAlphaMetricSpec(a)
    PROVE  MetricStored(AD!MetricPipelineSpecToBeta(AD!MetricPipelineDefaultAlpha(a)))
<1> DEFINE otlp == AD!OTLPInputDefaultAlpha(a.input.otlp)
           d == AD!MetricPipelineWith(a, otlp)
           x == AD!MetricPipelineSpecToBeta(d)
<1>1. AD!MetricPipelineSpecToBeta(AD!MetricPipelineDefaultAlpha(a)) = x
  BY Zenon DEF AD!MetricPipelineDefaultAlpha
<1> DEFINE i == AD!OTLPInputToBeta(otlp)
<1>2. /\ otlp.disabled \in BOOLEAN /\ otlp.namespaces # Nil
      /\ i # Nil /\ i.enabled = ~otlp.disabled /\ i.namespaces = AD!Sanitized(otlp.namespaces)
  BY ConvertedOTLPInput, Zenon DEF IsAlphaMetricSpec
<1> HIDE DEF otlp
<1>3. /\ i.enabled \in BOOLEAN /\ i.namespaces # Nil /\ IsBetaNamespaces(i.namespaces)
  BY <1>2, DefaultSelectors, ValidSelectors, Zenon
<1>4. /\ d.input.prometheus = AD!PrometheusDefaults(a.input.prometheus)
      /\ d.input.istio = AD!IstioDefaults(a.input.istio)
      /\ d.input.runtime = AD!RuntimeInputDefaults(a.input.runtime)
      /\ d.input.otlp = otlp
      /\ d.output.otlp = AD!DefaultProtocol(a.output.otlp)
      /\ d.output.temporality = AD!Given(a.output.temporality, "preserve")
  BY MetricWithFields, Zenon
<1> HIDE DEF d, i
<1>5. /\ x.input.prometheus = d.input.prometheus
      /\ x.input.istio = d.input.istio
      /\ x.input.runtime = AD!MetricPipelineRuntimeInputToBeta(d.input.runtime)
      /\ x.input.otlp = AD!OTLPInputToBeta(d.input.otlp)
      /\ x.output.otlp = AD!OTLPOutputToBeta(d.output.otlp)
      /\ x.output.temporality = d.output.temporality
  BY MetricConvertedFields, Zenon
<1> HIDE DEF x
<1>6. /\ AD!PrometheusDefaults(x.input.prometheus) = x.input.prometheus
      /\ AD!IstioDefaults(x.input.istio) = x.input.istio
  BY <1>4, <1>5, MetricInputsOnce, ZenonT(30)
<1>7. AD!RuntimeInputDefaults(x.input.runtime) = x.input.runtime
  <2> DEFINE r == AD!MetricPipelineRuntimeInputToBeta(a.input.runtime)
  <2>1. x.input.runtime = AD!RuntimeInputDefaults(r)
    BY <1>4, <1>5, MetricRuntimesAgree, Zenon
  <2>2. QED
    BY <2>1, MetricInputsOnce, Zenon
<1>8. \/ x.input.runtime = Nil
      \/ IsMetricRuntime(x.input.runtime) /\ IsBetaNamespaces(x.input.runtime.namespaces)
  BY <1>5, ConvertedMetricRuntime, Zenon
<1>9. IsBetaOTLPOutput(x.output.otlp) /\ x.output.otlp.protocol # ""
  BY <1>4, <1>5, ConvertedOutput, Zenon DEF IsAlphaMetricSpec
<1>10. AD!Given(x.output.temporality, "preserve") = x.output.temporality
  BY <1>4, <1>5, Zenon DEF AD!Given
<1>11. x.input.otlp = i
  BY <1>4, <1>5, Zenon DEF i
<1>12. MetricStored(x)
  BY <1>2, <1>3, <1>6, <1>7, <1>8, <1>9, <1>10, <1>11, ZenonT(30) DEF MetricStored
<1>13. QED
  BY <1>1, <1>12, Zenon

LEMMA MetricToAlphaFields ==
    ASSUME NEW s
    PROVE  LET d == AD!MetricPipelineSpecToAlpha(s)
           IN  /\ d.input.prometheus = s.input.prometheus
               /\ d.input.istio = s.input.istio
               /\ d.input.runtime = AD!MetricPipelineRuntimeInputToAlpha(s.input.runtime)
               /\ d.input.otlp = AD!OTLPInputToAlpha(s.input.otlp)
               /\ d.output.otlp = AD!OTLPOutputToAlpha(s.output.otlp)
               /\ d.output.temporality = s.output.temporality
               /\ d.transform = s.transform /\ d.filter = s.filter
BY Zenon DEF AD!MetricPipelineSpecToAlpha, AD!MetricPipelineInputToAlpha, AD!MetricPipelineOTLPOutputToAlpha

LEMMA MetricRuntimeComesBack ==
    ASSUME NilIsNoValue, NEW r, AD!RuntimeInputDefaults(r) = r,
           r = Nil \/ (IsMetricRuntime(r) /\ IsBetaNamespaces(r.namespaces))
    PROVE  AD!MetricPipelineRuntimeInputToBeta(
             AD!RuntimeInputDefaults(AD!MetricPipelineRuntimeInputToAlpha(r))) = r
<1>1. AD!MetricPipelineRuntimeInputToAlpha(r) = r
  BY Zenon DEF AD!MetricPipelineRuntimeInputToAlpha, IsMetricRuntime
<1>2. AD!MetricPipelineRuntimeInputToBeta(r) = r
  <2>1. CASE r = Nil
    BY <2>1, Zenon DEF AD!MetricPipelineRuntimeInputToBeta
  <2>2. CASE r # Nil
    <3>1. (IF r.namespaces = Nil THEN Nil ELSE AD!Sanitized(r.namespaces)) = r.namespaces
      BY <2>2, ValidSelectors, Zenon
    <3>2. QED
      BY <2>2, <3>1, Zenon DEF AD!MetricPipelineRuntimeInputToBeta, IsMetricRuntime
  <2>3. QED
    BY <2>1, <2>2, Zenon
<1>3. QED
  BY <1>1, <1>2, Zenon

\* A client of v1alpha1 may write back what it reads.
LEMMA MetricWriteBack ==
    ASSUME NilIsNoValue, NEW x, MetricStored(x), NEW kind, kind # AD!Log
    PROVE  Effect(kind, AD!MetricPipelineSpecToBeta(
                          AD!MetricPipelineDefaultAlpha(AD!MetricPipelineSpecToAlpha(x)))) = Effect(kind, x)
<1> DEFINE a == AD!MetricPipelineSpecToAlpha(x)
           d == AD!MetricPipelineDefaultAlpha(a)
           q == AD!MetricPipelineSpecToBeta(d)
<1>1. /\ a.input.prometheus = x.input.prometheus
      /\ a.input.istio = x.input.istio
      /\ a.input.runtime = AD!MetricPipelineRuntimeInputToAlpha(x.input.runtime)
      /\ a.input.otlp = AD!OTLPInputToAlpha(x.input.otlp)
      /\ a.output.otlp = AD!OTLPOutputToAlpha(x.output.otlp)
      /\ a.output.temporality = x.output.temporality
      /\ a.transform = x.transform /\ a.filter = x.filter
  BY MetricToAlphaFields, Zenon
<1> HIDE DEF a
<1>2. /\ d.input.prometheus = AD!PrometheusDefaults(a.input.prometheus)
      /\ d.input.istio = AD!IstioDefaults(a.input.istio)
      /\ d.input.runtime = AD!RuntimeInputDefaults(a.input.runtime)
      /\ d.input.otlp = AD!OTLPInputDefaultAlpha(a.input.otlp)
      /\ d.output.otlp = AD!DefaultProtocol(a.output.otlp)
      /\ d.output.temporality = AD!Given(a.output.temporality, "preserve")
      /\ d.transform = a.transform /\ d.filter = a.filter
  BY MetricWithFields, ZenonT(30) DEF AD!MetricPipelineDefaultAlpha
<1> HIDE DEF d
<1>3. /\ q.input.prometheus = d.input.prometheus
      /\ q.input.istio = d.input.istio
      /\ q.input.runtime = AD!MetricPipelineRuntimeInputToBeta(d.input.runtime)
      /\ q.input.otlp = AD!OTLPInputToBeta(d.input.otlp)
      /\ q.output.otlp = AD!OTLPOutputToBeta(d.output.otlp)
      /\ q.output.temporality = d.output.temporality
      /\ q.transform = d.transform /\ q.filter = d.filter
  BY MetricConvertedFields, Zenon
<1> HIDE DEF q
<1>4. q.input.prometheus = x.input.prometheus /\ q.input.istio = x.input.istio
  BY <1>1, <1>2, <1>3, Zenon DEF MetricStored
<1>5. q.input.runtime = x.input.runtime
  BY <1>1, <1>2, <1>3, MetricRuntimeComesBack, Zenon DEF MetricStored
<1>6. Does(q.input.otlp, Nil) = Does(x.input.otlp, Nil)
  <2> DEFINE i == x.input.otlp
  <2>1. q.input.otlp = AD!OTLPInputToBeta(AD!OTLPInputDefaultAlpha(AD!OTLPInputToAlpha(i)))
    BY <1>1, <1>2, <1>3, Zenon
  <2>2. /\ i # Nil /\ i.enabled \in BOOLEAN
        /\ i.enabled => i.namespaces # Nil /\ IsBetaNamespaces(i.namespaces)
    BY Zenon DEF MetricStored
  <2> HIDE DEF i
  <2>3. Does(q.input.otlp, Nil) = Does(i, Nil)
    BY <2>1, <2>2, OTLPInputComesBack, Zenon
  <2>4. QED
    BY <2>3, Zenon DEF i
<1>7. WithoutCompression(q.output.otlp) = WithoutCompression(x.output.otlp)
  <2> DEFINE o == x.output.otlp
  <2>1. q.output.otlp = AD!OTLPOutputToBeta(AD!DefaultProtocol(AD!OTLPOutputToAlpha(o)))
    BY <1>1, <1>2, <1>3, Zenon
  <2>2. IsBetaOTLPOutput(o) /\ o.protocol # ""
    BY Zenon DEF MetricStored
  <2> HIDE DEF o
  <2>3. WithoutCompression(q.output.otlp) = WithoutCompression(o)
    BY <2>1, <2>2, OutputComesBack, Zenon
  <2>4. QED
    BY <2>3, Zenon DEF o
<1>8. /\ q.output.temporality = x.output.temporality
      /\ q.transform = x.transform /\ q.filter = x.filter
  BY <1>1, <1>2, <1>3, Zenon DEF MetricStored
<1>9. Effect(kind, q) = Effect(kind, x)
  BY <1>4, <1>5, <1>6, <1>7, <1>8, Zenon DEF Effect
<1>10. QED
  BY <1>9, Zenon DEF q, d, a
\* A client of v1alpha1 reads what it has written, without the names that are no namespace names.
LEMMA MetricReadBack ==
    ASSUME NilIsNoValue, NEW s, IsAlphaMetricSpec(s), NEW kind, kind # AD!Log
    PROVE  LET d == AD!MetricPipelineDefaultAlpha(s)
           IN  AD!MetricPipelineSpecToAlpha(AD!MetricPipelineSpecToBeta(d)) = Cleaned(kind, d)
<1> DEFINE otlp == AD!OTLPInputDefaultAlpha(s.input.otlp)
           d == AD!MetricPipelineDefaultAlpha(s)
           b == AD!MetricPipelineSpecToBeta(d)
           r == d.input.runtime
           i == d.input.otlp
           o == d.output.otlp
<1>1. /\ r = AD!RuntimeInputDefaults(s.input.runtime)
      /\ i = otlp
      /\ o = AD!DefaultProtocol(s.output.otlp)
  BY MetricWithFields, ZenonT(30) DEF AD!MetricPipelineDefaultAlpha
<1>2. /\ i # Nil /\ i.disabled \in BOOLEAN /\ i.namespaces # Nil
      /\ i = [disabled |-> i.disabled, namespaces |-> i.namespaces]
      /\ AD!OTLPInputToBeta(i) = [enabled |-> ~i.disabled, namespaces |-> AD!Sanitized(i.namespaces)]
      /\ AD!OTLPInputToBeta(i) # Nil
  <2> HIDE DEF i, d
  <2>1. QED  BY <1>1, ConvertedOTLPInput, Zenon DEF IsAlphaMetricSpec
<1>3. r = Nil \/ IsMetricRuntime(r)
  <2> HIDE DEF r, d
  <2>1. QED  BY <1>1, MetricRuntimeShape, Zenon DEF IsAlphaMetricSpec
<1>4. IsAlphaOTLPOutput(o)
  <2> HIDE DEF o, d
  <2>1. QED  BY <1>1, ProtocolShape, Zenon DEF IsAlphaMetricSpec
<1>5. d = [input |-> d.input, output |-> d.output, transform |-> d.transform, filter |-> d.filter]
  <2> DEFINE in == [prometheus |-> AD!PrometheusDefaults(s.input.prometheus),
                    istio |-> AD!IstioDefaults(s.input.istio),
                    runtime |-> AD!RuntimeInputDefaults(s.input.runtime), otlp |-> otlp]
             out == AD!applyOTLPOutputDefaults(s.output)
  <2>1. d = [input |-> in, output |-> out, transform |-> s.transform, filter |-> s.filter]
    BY Zenon DEF AD!MetricPipelineDefaultAlpha, AD!MetricPipelineWith
  <2> HIDE DEF d, in, out
  <2>2. d.input = in /\ d.output = out /\ d.transform = s.transform /\ d.filter = s.filter
    BY <2>1, Zenon
  <2>3. QED
    BY <2>1, <2>2, Zenon
<1>6. d.output = [otlp |-> o, temporality |-> d.output.temporality]
  <2> DEFINE p == AD!DefaultProtocol(s.output.otlp)
             t == AD!Given(s.output.temporality, "preserve")
  <2>1. d.output = AD!applyOTLPOutputDefaults(s.output)
    BY Zenon DEF AD!MetricPipelineDefaultAlpha, AD!MetricPipelineWith
  <2>2. AD!applyOTLPOutputDefaults(s.output) = [otlp |-> p, temporality |-> t]
    BY Zenon DEF AD!applyOTLPOutputDefaults
  <2> DEFINE out == d.output
  <2> HIDE DEF d, p, t
  <2>3. out = [otlp |-> p, temporality |-> t]
    BY <2>1, <2>2, Zenon
  <2> HIDE DEF out
  <2>4. out.otlp = p /\ out.temporality = t
    BY <2>3, Zenon
  <2>5. out = [otlp |-> out.otlp, temporality |-> out.temporality]
    BY <2>3, <2>4, Zenon
  <2>6. QED
    BY <2>5, Zenon DEF out
<1> HIDE DEF d, otlp
<1>7. AD!MetricPipelineRuntimeInputToAlpha(AD!MetricPipelineRuntimeInputToBeta(r)) = Clean(r)
  <2> HIDE DEF r
  <2> DEFINE n == IF r.namespaces = Nil THEN Nil ELSE AD!Sanitized(r.namespaces)
             R == [enabled |-> r.enabled, resources |-> r.resources,
                   additionalMetrics |-> r.additionalMetrics, namespaces |-> n]
             c == AD!MetricPipelineRuntimeInputToBeta(r)
  <2>1. CASE r = Nil
    BY <2>1, Zenon DEF AD!MetricPipelineRuntimeInputToBeta, AD!MetricPipelineRuntimeInputToAlpha, Clean
  <2>2. CASE r # Nil
    <3>1. c = R
      BY <2>2, Zenon DEF AD!MetricPipelineRuntimeInputToBeta
    <3>2. c # Nil
      BY <3>1, Zenon DEF NilIsNoValue
    <3>3. r = [enabled |-> r.enabled, resources |-> r.resources,
               additionalMetrics |-> r.additionalMetrics, namespaces |-> r.namespaces]
      BY <1>3, <2>2, Zenon DEF IsMetricRuntime
    <3>4. Clean(r) = R
      <4>1. CASE r.namespaces = Nil
        BY <2>2, <3>3, <4>1, Zenon DEF Clean
      <4>2. CASE r.namespaces # Nil
        <5>1. Clean(r) = [r EXCEPT !.namespaces = AD!Sanitized(@)]
          BY <2>2, <4>2, Zenon DEF Clean
        <5>2. QED
          BY <3>3, <4>2, <5>1, Zenon
      <4>3. QED
        BY <4>1, <4>2, Zenon
    <3> HIDE DEF c, n
    <3>5. /\ c.enabled = r.enabled /\ c.resources = r.resources
          /\ c.additionalMetrics = r.additionalMetrics /\ c.namespaces = n
      BY <3>1, Zenon
    <3>6. AD!MetricPipelineRuntimeInputToAlpha(c) = R
      BY <3>2, <3>5, Zenon DEF AD!MetricPipelineRuntimeInputToAlpha
    <3>7. QED
      BY <3>4, <3>6, Zenon DEF c
  <2>3. QED
    BY <2>1, <2>2, Zenon
<1>8. AD!OTLPInputToAlpha(AD!OTLPInputToBeta(i)) = Clean(i)
  <2> HIDE DEF i
  <2> DEFINE c == AD!OTLPInputToBeta(i)
             n == AD!Sanitized(i.namespaces)
  <2>1. n # Nil /\ AD!Sanitized(n) = n
    BY DefaultSelectors, ValidSelectors, Zenon
  <2> HIDE DEF n
  <2>2. c = [enabled |-> ~i.disabled, namespaces |-> n] /\ c # Nil
    BY <1>2, Zenon DEF n
  <2> HIDE DEF c
  <2>3. c.enabled = ~i.disabled /\ c.namespaces = n
    BY <2>2, Zenon
  <2>4. (c.enabled # Nil /\ c.enabled = FALSE) = i.disabled
    <3>1. CASE i.disabled
      <4>1. c.enabled = FALSE
        BY <2>3, <3>1, Zenon
      <4>2. i.disabled = TRUE
        BY <1>2, <3>1, Zenon
      <4>3. QED
        BY <4>1, <4>2, StructsAreNotNil, Zenon
    <3>2. CASE ~i.disabled
      <4>1. c.enabled = TRUE
        BY <2>3, <3>2, Zenon
      <4>2. i.disabled = FALSE
        BY <1>2, <3>2, Zenon
      <4>3. TRUE # FALSE
        OBVIOUS
      <4>4. QED
        BY <4>1, <4>2, <4>3, Zenon
    <3>3. QED
      BY <3>1, <3>2, Zenon
  <2>5. AD!OTLPInputToAlpha(c) = [disabled |-> i.disabled, namespaces |-> n]
    BY <2>1, <2>2, <2>3, <2>4, Zenon DEF AD!OTLPInputToAlpha
  <2>6. Clean(i) = [i EXCEPT !.namespaces = AD!Sanitized(@)]
    BY <1>2, Zenon DEF Clean
  <2>7. Clean(i) = [disabled |-> i.disabled, namespaces |-> n]
    BY <1>2, <2>6, Zenon DEF n
  <2>8. QED
    BY <2>5, <2>7, Zenon DEF c
<1>9. AD!OTLPOutputToAlpha(AD!OTLPOutputToBeta(o)) = o
  <2> HIDE DEF o
  <2> DEFINE c == AD!OTLPOutputToBeta(o)
  <2>1. AD!ValueType(o.endpoint) = o.endpoint
    BY <1>4, Zenon DEF IsAlphaOTLPOutput, IsValue
  <2>2. /\ c.protocol = o.protocol /\ c.endpoint = o.endpoint /\ c.path = o.path
        /\ c.authentication = o.authentication /\ c.headers = o.headers /\ c.tls = o.tls
    BY <2>1, Zenon DEF AD!OTLPOutputToBeta
  <2> HIDE DEF c
  <2>3. AD!OTLPOutputToAlpha(c) = o
    BY <1>4, <2>1, <2>2, Zenon DEF AD!OTLPOutputToAlpha, IsAlphaOTLPOutput
  <2>4. QED
    BY <2>3, Zenon DEF c
<1>10. /\ b.input.prometheus = d.input.prometheus /\ b.input.istio = d.input.istio
       /\ b.input.runtime = AD!MetricPipelineRuntimeInputToBeta(r)
       /\ b.input.otlp = AD!OTLPInputToBeta(i)
       /\ b.output.otlp = AD!OTLPOutputToBeta(o)
       /\ b.output.temporality = d.output.temporality
       /\ b.transform = d.transform /\ b.filter = d.filter
  BY MetricConvertedFields, Zenon
<1> HIDE DEF b
<1> DEFINE in == [prometheus |-> d.input.prometheus, istio |-> d.input.istio,
                  runtime |-> Clean(r), otlp |-> Clean(i)]
<1>11. AD!MetricPipelineInputToAlpha(b.input) = in
  <2> HIDE DEF r, i
  <2>1. AD!MetricPipelineInputToAlpha(b.input) =
          [prometheus |-> d.input.prometheus, runtime |-> Clean(r), istio |-> d.input.istio,
           otlp |-> Clean(i)]
    BY <1>7, <1>8, <1>10, Zenon DEF AD!MetricPipelineInputToAlpha
  <2>2. QED
    BY <2>1
<1>12. AD!MetricPipelineOTLPOutputToAlpha(b.output) = d.output
  <2> HIDE DEF o
  <2>1. QED  BY <1>6, <1>9, <1>10, Zenon DEF AD!MetricPipelineOTLPOutputToAlpha
<1> HIDE DEF in
<1>13. AD!MetricPipelineSpecToAlpha(b) =
         [input |-> in, output |-> d.output, transform |-> d.transform, filter |-> d.filter]
  BY <1>10, <1>11, <1>12, Zenon DEF AD!MetricPipelineSpecToAlpha
<1>14. Cleaned(kind, d) = [d EXCEPT !.input = in]
  BY Zenon DEF Cleaned, in
<1>15. Cleaned(kind, d) =
         [input |-> in, output |-> d.output, transform |-> d.transform, filter |-> d.filter]
  BY <1>5, <1>14, Zenon
<1>16. QED
  BY <1>13, <1>15, Zenon DEF b, d
-----------------------------------------------------------------------------
\* Histories.

\* Specs that the schema of a version admits.
IsSpec(kind, version, s) == IF version = "alpha" THEN IsAlphaSpec(kind, s) ELSE IsBetaSpec(kind, s)

\* Objects that some history of writes leads to.
Stored(kind, o) ==
    o.generation \in Nat /\ IF kind = AD!Log THEN LogStored(o) ELSE MetricStored(o.spec)

LEMMA GenerationIsNat ==
    ASSUME NEW o, NEW s, o.generation \in Nat
    PROVE  AD!Generation(o, s) \in Nat
BY DEF AD!Generation

LEMMA WrittenInAlphaIsStored ==
    ASSUME NilIsNoValue, NEW kind, NEW s, IsAlphaSpec(kind, s), NEW g \in Nat
    PROVE  Stored(kind, AD!ConvertTo(kind, [spec |-> AD!DefaultAlpha(kind, s), generation |-> g]))
<1>1. CASE kind = AD!Log
  <2> DEFINE o == AD!LogPipelineConvertTo([spec |-> AD!LogPipelineDefaultAlpha(s), generation |-> g])
  <2>1. LogStored(o)
    BY LogStoredInAlpha, Zenon
  <2>2. o.generation \in Nat
    BY <2>1, Zenon DEF LogStored
  <2> HIDE DEF o
  <2>3. QED
    BY <1>1, <2>1, <2>2, Zenon DEF AD!ConvertTo, AD!DefaultAlpha, Stored, o
<1>2. CASE kind # AD!Log
  <2> DEFINE d == AD!MetricPipelineDefaultAlpha(s)
             o == AD!MetricPipelineConvertTo([spec |-> d, generation |-> g])
  <2>1. MetricStored(AD!MetricPipelineSpecToBeta(d))
    BY <1>2, MetricStoredInAlpha, Zenon DEF IsAlphaSpec
  <2> HIDE DEF d
  <2>2. o.spec = AD!MetricPipelineSpecToBeta(d) /\ o.generation = g
    BY Zenon DEF AD!MetricPipelineConvertTo
  <2> HIDE DEF o
  <2>3. o.generation \in Nat /\ MetricStored(o.spec)
    BY <2>1, <2>2, Zenon
  <2>4. QED
    BY <1>2, <2>3, Zenon DEF AD!ConvertTo, AD!DefaultAlpha, Stored, o, d
<1>3. QED
  BY <1>1, <1>2, Zenon

\* A pipeline created through either version (Created: its defaulter, then the conversion
\* if it is v1alpha1), without an annotation of another one, is stored as an object of this
\* kind.
THEOREM CreatedIsStored ==
    ASSUME NilIsNoValue, NEW kind, NEW version, NEW s, IsSpec(kind, version, s)
    PROVE  Stored(kind, AD!Created(kind, version, s, Nil))
<1>1. CASE version = "alpha"
  BY <1>1, WrittenInAlphaIsStored, Zenon DEF AD!Created, IsSpec
<1>2. CASE version # "alpha"
  <2> DEFINE new == AD!DefaultBeta(kind, s)
             o == [spec |-> new, generation |-> 1, data |-> Nil]
  <2>1. AD!Created(kind, version, s, Nil) = o
    BY <1>2, Zenon DEF AD!Created
  <2>2. CASE kind = AD!Log
    <3>1. \E b : IsBetaLogSpec(b) /\ new = AD!LogPipelineDefaultBeta(b)
      BY <1>2, <2>2, Zenon DEF AD!DefaultBeta, IsSpec, IsBetaSpec
    <3> HIDE DEF new
    <3>2. o.spec = new /\ o.generation = 1 /\ o.data = Nil
      BY Zenon
    <3>3. 1 \in Nat
      OBVIOUS
    <3> HIDE DEF o
    <3>4. LogStored(o)
      BY <3>1, <3>2, <3>3, Zenon DEF LogStored
    <3>5. QED
      BY <2>1, <2>2, <3>2, <3>3, <3>4, Zenon DEF Stored
  <2>3. CASE kind # AD!Log
    <3>1. MetricStored(new)
      BY <1>2, <2>3, MetricStoredInBeta, Zenon DEF AD!DefaultBeta, IsSpec, IsBetaSpec
    <3> HIDE DEF new
    <3>2. o.spec = new /\ o.generation = 1
      BY Zenon
    <3>3. 1 \in Nat
      OBVIOUS
    <3> HIDE DEF o
    <3>4. QED
      BY <2>1, <2>3, <3>1, <3>2, <3>3, Zenon DEF Stored
  <2>4. QED
    BY <2>2, <2>3, Zenon
<1>3. QED
  BY <1>1, <1>2, Zenon

\* An update through either version (Updated), whether the client keeps the annotation or
\* drops it, leaves an object of this kind: with CreatedIsStored, every write does.
THEOREM UpdatedIsStored ==
    ASSUME NilIsNoValue, NEW kind, NEW version, NEW s, IsSpec(kind, version, s),
           NEW o, Stored(kind, o), NEW keep
    PROVE  Stored(kind, AD!Updated(kind, o, version, s, keep))
<1>1. CASE version = "alpha"
  <2> DEFINE new == AD!DefaultAlpha(kind, s)
             g == AD!Generation(AD!ConvertFrom(kind, o), new)
  <2>1. AD!Updated(kind, o, version, s, keep) = AD!ConvertTo(kind, [spec |-> new, generation |-> g])
    BY <1>1, Zenon DEF AD!Updated
  <2>2. AD!ConvertFrom(kind, o).generation = o.generation
    BY Zenon DEF AD!ConvertFrom, AD!LogPipelineConvertFrom, AD!MetricPipelineConvertFrom
  <2>3. g \in Nat
    BY <2>2, GenerationIsNat, Zenon DEF Stored
  <2> HIDE DEF g
  <2>4. QED
    BY <1>1, <2>1, <2>3, WrittenInAlphaIsStored, Zenon DEF IsSpec
<1>2. CASE version # "alpha"
  <2> DEFINE new == AD!DefaultBeta(kind, s)
             p == [spec |-> new, generation |-> AD!Generation(o, new), data |-> IF keep THEN o.data ELSE Nil]
  <2>1. AD!Updated(kind, o, version, s, keep) = p
    BY <1>2, Zenon DEF AD!Updated
  <2>2. CASE kind = AD!Log
    <3>1. LogStored(p)
      BY <1>2, <2>2, LogStoredInBeta, Zenon DEF AD!DefaultBeta, IsSpec, IsBetaSpec, Stored
    <3>2. p.generation \in Nat
      BY <3>1, Zenon DEF LogStored
    <3> HIDE DEF p
    <3>3. QED
      BY <2>1, <2>2, <3>1, <3>2, Zenon DEF Stored
  <2>3. CASE kind # AD!Log
    <3>1. MetricStored(new)
      BY <1>2, <2>3, MetricStoredInBeta, Zenon DEF AD!DefaultBeta, IsSpec, IsBetaSpec
    <3>2. AD!Generation(o, new) \in Nat
      BY GenerationIsNat, Zenon DEF Stored
    <3> HIDE DEF new
    <3>3. p.spec = new /\ p.generation = AD!Generation(o, new)
      BY Zenon
    <3> HIDE DEF p
    <3>4. QED
      BY <2>1, <2>3, <3>1, <3>2, <3>3, Zenon DEF Stored
  <2>4. QED
    BY <2>2, <2>3, Zenon
<1>3. QED
  BY <1>1, <1>2, Zenon

\* Whatever clients of both versions have written before: a client of v1alpha1 that writes
\* back what it reads leaves the effect of the stored pipeline alone.
THEOREM WriteBackKeepsEffect ==
    ASSUME NilIsNoValue, NEW kind, NEW o, Stored(kind, o)
    PROVE  Effect(kind, AD!Updated(kind, o, "alpha", AD!ConvertFrom(kind, o).spec, FALSE).spec) =
             Effect(kind, o.spec)
<1> DEFINE a == AD!ConvertFrom(kind, o).spec
           new == AD!DefaultAlpha(kind, a)
           g == AD!Generation(AD!ConvertFrom(kind, o), new)
<1>1. AD!Updated(kind, o, "alpha", a, FALSE) = AD!ConvertTo(kind, [spec |-> new, generation |-> g])
  BY Zenon DEF AD!Updated
<1> HIDE DEF g
<1>2. CASE kind = AD!Log
  <2>1. new = AD!LogPipelineDefaultAlpha(AD!LogPipelineConvertFrom(o).spec)
    BY <1>2, Zenon DEF AD!DefaultAlpha, AD!ConvertFrom
  <2>2. LogStored(o)
    BY <1>2, Zenon DEF Stored
  <2> HIDE DEF new
  <2>3. Effect(AD!Log, AD!LogPipelineConvertTo([spec |-> new, generation |-> g]).spec) =
          Effect(AD!Log, o.spec)
    BY <2>1, <2>2, LogWriteBack, Zenon
  <2>4. QED
    BY <1>1, <1>2, <2>3, Zenon DEF AD!ConvertTo
<1>3. CASE kind # AD!Log
  <2>1. a = AD!MetricPipelineSpecToAlpha(o.spec)
    BY <1>3, Zenon DEF AD!ConvertFrom, AD!MetricPipelineConvertFrom
  <2>2. new = AD!MetricPipelineDefaultAlpha(AD!MetricPipelineSpecToAlpha(o.spec))
    BY <1>3, <2>1, Zenon DEF AD!DefaultAlpha
  <2>3. MetricStored(o.spec)
    BY <1>3, Zenon DEF Stored
  <2> HIDE DEF new
  <2>4. Effect(kind, AD!MetricPipelineSpecToBeta(new)) = Effect(kind, o.spec)
    BY <1>3, <2>2, <2>3, MetricWriteBack, Zenon
  <2>5. AD!MetricPipelineConvertTo([spec |-> new, generation |-> g]).spec = AD!MetricPipelineSpecToBeta(new)
    BY Zenon DEF AD!MetricPipelineConvertTo
  <2>6. QED
    BY <1>1, <1>3, <2>4, <2>5, Zenon DEF AD!ConvertTo
<1>4. QED
  BY <1>2, <1>3, Zenon

\* An annotation copied from a pipeline of another generation is not read.
LEMMA CopyIsIgnored ==
    ASSUME NilIsNoValue, NEW kind, NEW version, NEW s, IsSpec(kind, version, s),
           NEW copied, copied = Nil \/ copied.generation # 1
    PROVE  LET o == AD!Created(kind, version, s, copied)
           IN  Effect(kind, AD!Updated(kind, o, "alpha", AD!ConvertFrom(kind, o).spec, FALSE).spec) =
                 Effect(kind, o.spec)
<1> DEFINE o == AD!Created(kind, version, s, copied)
           n == AD!Created(kind, version, s, Nil)
<1>1. AD!ConvertFrom(kind, o) = AD!ConvertFrom(kind, n) /\ o.spec = n.spec
  <2>1. CASE version = "alpha"
    <3>1. o = n
      BY <2>1, Zenon DEF AD!Created
    <3>2. QED
      BY <3>1, Zenon
  <2>2. CASE version # "alpha"
    <3> DEFINE new == AD!DefaultBeta(kind, s)
    <3>1. /\ o = [spec |-> new, generation |-> 1, data |-> copied]
          /\ n = [spec |-> new, generation |-> 1, data |-> Nil]
      BY <2>2, Zenon DEF AD!Created
    <3> HIDE DEF o, n, new
    <3>2. /\ o.spec = new /\ o.generation = 1 /\ o.data = copied
          /\ n.spec = new /\ n.generation = 1 /\ n.data = Nil
      BY <3>1, Zenon
    <3>3. AD!LogPipelineConvertFrom(o) = AD!LogPipelineConvertFrom(n)
      BY <3>2, Zenon DEF AD!LogPipelineConvertFrom
    <3>4. AD!MetricPipelineConvertFrom(o) = AD!MetricPipelineConvertFrom(n)
      BY <3>2, Zenon DEF AD!MetricPipelineConvertFrom
    <3>5. QED
      BY <3>2, <3>3, <3>4, Zenon DEF AD!ConvertFrom
  <2>3. QED
    BY <2>1, <2>2, Zenon
<1>2. Stored(kind, n)
  BY CreatedIsStored, Zenon
<1> HIDE DEF o, n
<1>3. \A x : AD!Updated(kind, o, "alpha", x, FALSE) = AD!Updated(kind, n, "alpha", x, FALSE)
  BY <1>1, Zenon DEF AD!Updated
<1>4. QED
  <2>1. Effect(kind, AD!Updated(kind, n, "alpha", AD!ConvertFrom(kind, n).spec, FALSE).spec) =
          Effect(kind, n.spec)
    BY <1>2, WriteBackKeepsEffect, Zenon
  <2>2. Effect(kind, AD!Updated(kind, o, "alpha", AD!ConvertFrom(kind, o).spec, FALSE).spec) =
          Effect(kind, o.spec)
    BY <1>1, <1>3, <2>1, ZenonT(30)
  <2>3. QED
    BY <2>2, Zenon DEF o

\* A client of v1alpha1 reads what it has written last.
LEMMA ReadsWhatItWrote ==
    ASSUME NilIsNoValue, NEW kind, NEW s, IsAlphaSpec(kind, s), NEW g
    PROVE  LET d == AD!DefaultAlpha(kind, s)
           IN  AD!ConvertFrom(kind, AD!ConvertTo(kind, [spec |-> d, generation |-> g])).spec =
                 Cleaned(kind, d)
<1> DEFINE d == AD!DefaultAlpha(kind, s)
<1>1. CASE kind = AD!Log
  <2>1. d = AD!LogPipelineDefaultAlpha(s)
    BY <1>1, Zenon DEF AD!DefaultAlpha
  <2> HIDE DEF d
  <2>2. AD!LogPipelineConvertFrom(AD!LogPipelineConvertTo([spec |-> d, generation |-> g])).spec = d
    BY <2>1, LogWrittenInAlpha, Zenon
  <2>3. QED
    BY <1>1, <2>2, Zenon DEF AD!ConvertFrom, AD!ConvertTo, Cleaned, d
<1>2. CASE kind # AD!Log
  <2>1. d = AD!MetricPipelineDefaultAlpha(s)
    BY <1>2, Zenon DEF AD!DefaultAlpha
  <2> DEFINE o == AD!MetricPipelineConvertTo([spec |-> d, generation |-> g])
  <2> HIDE DEF d
  <2>2. o.spec = AD!MetricPipelineSpecToBeta(d)
    BY Zenon DEF AD!MetricPipelineConvertTo
  <2> HIDE DEF o
  <2>3. AD!MetricPipelineSpecToAlpha(o.spec) = Cleaned(kind, d)
    BY <1>2, <2>1, <2>2, MetricReadBack, Zenon DEF IsAlphaSpec
  <2>4. AD!MetricPipelineConvertFrom(o).spec = Cleaned(kind, d)
    BY <2>3, Zenon DEF AD!MetricPipelineConvertFrom
  <2>5. QED
    BY <1>2, <2>4, Zenon DEF AD!ConvertFrom, AD!ConvertTo, o, d
<1>3. QED
  BY <1>1, <1>2, Zenon

(***************************************************************************)
(* Clients of the two versions do not undo each other's writes, whatever   *)
(* they write: the histories of the run, for all specs.                    *)
(***************************************************************************)
THEOREM ConversionAlwaysKeepsSpec ==
    ASSUME NilIsNoValue,
           built.kind = "history" => IsAlphaSpec(built.of, built.alpha) /\ IsBetaSpec(built.of, built.beta)
    PROVE  ConversionKeepsSpec
<1> SUFFICES ASSUME built.kind = "history"
             PROVE  ConversionKeepsSpec
  BY Zenon DEF ConversionKeepsSpec
<1> DEFINE kind == built.of
           a == built.alpha
           b == built.beta
           v1 == IF built.alphaFirst THEN "alpha" ELSE "beta"
           v2 == IF built.alphaFirst THEN "beta" ELSE "alpha"
           s1 == IF built.alphaFirst THEN a ELSE b
           s2 == IF v2 = "alpha" THEN a ELSE b
           first == AD!Created(kind, v1, s1, built.copied)
           second == AD!Updated(kind, first, v2, s2, built.keep)
           Keeps(o) == Effect(kind, AD!Updated(kind, o, "alpha", AD!ConvertFrom(kind, o).spec, FALSE).spec) =
                         Effect(kind, o.spec)
           Same(o) == AD!ConvertFrom(kind, o).spec = Cleaned(kind, AD!DefaultAlpha(kind, a))
<1>1. IsAlphaSpec(kind, a) /\ IsBetaSpec(kind, b)
  OBVIOUS
<1> HIDE DEF kind, a, b
<1>2. "beta" # "alpha"
  OBVIOUS
<1>3. IsSpec(kind, v1, s1) /\ IsSpec(kind, v2, s2)
  BY <1>1, <1>2, Zenon DEF IsSpec
<1>4. (built.copied = Nil \/ built.copied.generation # first.generation) => Keeps(first)
  <2>1. first.generation = 1
    BY Zenon DEF AD!Created, AD!ConvertTo, AD!LogPipelineConvertTo, AD!MetricPipelineConvertTo
  <2>2. (built.copied = Nil \/ built.copied.generation # 1) => Keeps(first)
    <3> HIDE DEF v1, s1
    <3>1. QED  BY <1>3, CopyIsIgnored, Zenon
  <2>3. QED
    BY <2>1, <2>2, Zenon
<1>5. Stored(kind, second)
  <2>1. CASE built.alphaFirst
    <3>1. first = AD!Created(kind, v1, s1, Nil)
      BY <2>1, Zenon DEF AD!Created
    <3> HIDE DEF v1, s1, v2, s2, first
    <3>2. Stored(kind, first)
      BY <1>3, <3>1, CreatedIsStored, Zenon
    <3>3. QED
      BY <1>3, <3>2, UpdatedIsStored, Zenon
  <2>2. CASE ~built.alphaFirst
    <3> DEFINE g == AD!Generation(AD!ConvertFrom(kind, first), AD!DefaultAlpha(kind, a))
    <3>1. first.generation = 1 /\ v2 = "alpha" /\ s2 = a
      BY <1>2, <2>2, Zenon DEF AD!Created
    <3> HIDE DEF v1, s1, v2, s2, first
    <3>2. second = AD!ConvertTo(kind, [spec |-> AD!DefaultAlpha(kind, a), generation |-> g])
      BY <3>1, Zenon DEF AD!Updated
    <3>3. AD!ConvertFrom(kind, first).generation = first.generation
      BY Zenon DEF AD!ConvertFrom, AD!LogPipelineConvertFrom, AD!MetricPipelineConvertFrom
    <3>4. AD!ConvertFrom(kind, first).generation \in Nat
      <4>1. 1 \in Nat
        OBVIOUS
      <4>2. QED
        BY <3>1, <3>3, <4>1, Zenon
    <3>5. g \in Nat
      BY <3>4, GenerationIsNat, Zenon
    <3> HIDE DEF second, g
    <3>6. QED
      BY <1>1, <3>2, <3>5, WrittenInAlphaIsStored, Zenon
  <2>3. QED
    BY <2>1, <2>2, Zenon
<1>6. Keeps(second)
  <2> HIDE DEF second
  <2>1. QED  BY <1>5, WriteBackKeepsEffect, Zenon
<1>7. IF built.alphaFirst THEN Same(first) ELSE Same(second)
  <2>1. CASE built.alphaFirst
    <3>1. first = AD!ConvertTo(kind, [spec |-> AD!DefaultAlpha(kind, a), generation |-> 1])
      BY <2>1, Zenon DEF AD!Created
    <3> HIDE DEF first
    <3>2. Same(first)
      BY <1>1, <3>1, ReadsWhatItWrote, Zenon
    <3>3. QED
      BY <2>1, <3>2, Zenon
  <2>2. CASE ~built.alphaFirst
    <3> DEFINE g == AD!Generation(AD!ConvertFrom(kind, first), AD!DefaultAlpha(kind, a))
    <3>1. v2 = "alpha" /\ s2 = a
      BY <2>2, Zenon
    <3> HIDE DEF first, v2, s2
    <3>2. second = AD!ConvertTo(kind, [spec |-> AD!DefaultAlpha(kind, a), generation |-> g])
      BY <3>1, Zenon DEF AD!Updated
    <3> HIDE DEF second, g
    <3>3. Same(second)
      BY <1>1, <3>2, ReadsWhatItWrote, Zenon
    <3>4. QED
      BY <2>2, <3>3, Zenon
  <2>3. QED
    BY <2>1, <2>2, Zenon
<1>8. built.alphaFirst => second.spec = AD!DefaultBeta(kind, b)
  <2> SUFFICES ASSUME built.alphaFirst PROVE second.spec = AD!DefaultBeta(kind, b)
    OBVIOUS
  <2>1. v2 # "alpha" /\ s2 = b
    BY <1>2, Zenon
  <2> HIDE DEF first, v2, s2
  <2>2. second.spec = AD!DefaultBeta(kind, b)
    BY <2>1, Zenon DEF AD!Updated
  <2>3. QED
    BY <2>2
<1>9. QED
  BY <1>4, <1>6, <1>7, <1>8, Zenon DEF ConversionKeepsSpec, kind, a, b

=============================================================================
